---- MODULE Spec2Model ----
(***************************************************************************)
(* A model of the AI DevOps assistant (src/ai-agent): the pattern-based    *)
(* log classifier (log_analyzer.py), the runbook cache and the reasoning   *)
(* pipeline (rag_chain.py) and the /diagnose handler (main.py).            *)
(*                                                                         *)
(* Text is modelled as a sequence of lexemes (words of a small lexicon,    *)
(* implicitly separated by one blank; the lexeme "\n" is a line break).    *)
(* A regular expression of the registry is modelled as its ordered list of *)
(* alternatives, each a sequence of lower-case words, joined by optional   *)
(* white space or by an any-characters gap, matched case-insensitively     *)
(* against whole lexemes.                                                  *)
(***************************************************************************)
EXTENDS Integers, Sequences, FiniteSets, TLC

VARIABLES
    pc,               \* position of the request being served
    text,             \* body.error_message / the text handed to classify_errors
    classifications,  \* result of classify_errors(text)
    hs_arg,           \* the list handed to get_highest_severity
    hs_from,          \* "classifier": hs_arg is classifications; "caller": a hand-built list
    highest,          \* result of get_highest_severity(hs_arg)
    credential,       \* settings.google_api_key is set
    store,            \* the runbook directory: whether it exists, and its files
    runbook_cache,    \* _runbook_cache
    matching_runbooks,\* analyze_devops_issue: search_runbooks(error_context)
    engine,           \* the outcome of chat.invoke: "none", "returned", "raised"
    reply,            \* result.content, the raw text the engine returned
    error_msg,        \* str(e) of the exception the invocation raised
    invocations,      \* how often chat.invoke was called for this request
    analysis,         \* the record analyze_devops_issue returns
    response,         \* the DiagnoseResponse, or HTTP 500
    lpc,              \* per thread: its position in load_runbooks
    lfiles,           \* per thread: the files glob listed
    lidx,             \* per thread: the file the loop is at
    lret,             \* per thread: what the last call returned ("cache": the cache list, "empty": a fresh [])
    last_call,        \* the latest call of load_runbooks / search_runbooks by a direct caller
    prev_call,        \* the call before it
    k8s_available,    \* _k8s_available, set when k8s_collector is imported
    pod_name,         \* body.pod_name
    deployment_name,  \* body.deployment_name
    include_cluster_health, \* body.include_cluster_health
    k8s_data,         \* diagnose: the snapshot collected for the request
    prompt,           \* analyze_devops_issue: full_prompt
    error_patterns,   \* ERROR_PATTERNS, the module-level list classify_errors iterates over
    lsearch           \* per thread: the search_runbooks call it runs, if any, and its result

(***************************************************************************)
(* Bounds of the model.                                                    *)
(***************************************************************************)
MaxTextLen == 4
MaxListLen == 2
MaxDocs == 3
MaxDiagTextLen == 2
NumThreads == 2
MaxQueryLen == 2
MaxTopK == 3

(***************************************************************************)
(* Constants of the program.                                               *)
(***************************************************************************)
\* search_runbooks(query, top_k=3)
DefaultTopK == 3
\* error_context[:500]
MockExcerptChars == 500
SummaryChars == 200
\* k8s_data['events'][:10]
EventLimit == 10
\* logs.strip().split("\n")[-50:]
LogLines == 50

\* The words input texts are built from: case variants of registry words,
\* words that only match in combination, a word no signature knows, a line break.
Lexicon ==
    {"OOMKilled", "oomkilled", "readinessProbe", "forbidden",
     "quota", "EACCES", "hello", "\n"}

RECURSIVE SeqsUpTo(_, _)
SeqsUpTo(S, n) ==
    IF n = 0 THEN {<<>>}
    ELSE LET shorter == SeqsUpTo(S, n - 1)
         IN  shorter \cup {Append(s, x) : s \in shorter, x \in S}

Texts == SeqsUpTo(Lexicon, MaxTextLen)

(***************************************************************************)
(* models.py: the closed enums.                                            *)
(***************************************************************************)
Severity == {"CRITICAL", "HIGH", "MEDIUM", "LOW", "INFO"}

ErrorCategory ==
    {"OOMKilled", "CrashLoopBackOff", "ImagePullBackOff", "CreateContainerConfigError",
     "ReadinessProbeFailure", "LivenessProbeFailure", "ResourceQuotaExceeded",
     "PermissionDenied", "TerraformStateLock", "TerraformProviderError",
     "CICDPipelineFailure", "NetworkError", "Unknown"}

(***************************************************************************)
(* log_analyzer.py: the pattern registry.                                  *)
(***************************************************************************)
\* re.IGNORECASE: the lower-case form of a lexeme.
Lower(w) ==
    CASE w = "OOMKilled" -> "oomkilled"
      [] w = "readinessProbe" -> "readinessprobe"
      [] w = "EACCES" -> "eacces"
      [] w = "CrashLoopBackOff" -> "crashloopbackoff"
      [] w = "ImagePullBackOff" -> "imagepullbackoff"
      [] w = "Terraform" -> "terraform"
      [] OTHER -> w

ERROR_PATTERNS == <<
    [pattern  |-> << <<"oomkilled">> >>,
     category |-> "OOMKilled", severity |-> "CRITICAL",
     hint     |-> "Container exceeded memory limits and was killed by the kernel OOM killer."],
    [pattern  |-> << <<"crashloopbackoff">> >>,
     category |-> "CrashLoopBackOff", severity |-> "CRITICAL",
     hint     |-> "Container is crashing repeatedly. Check exit code and last termination reason."],
    [pattern  |-> << <<"imagepullbackoff">>, <<"errimagepull">>, <<"imagepullerror">> >>,
     category |-> "ImagePullBackOff", severity |-> "HIGH",
     hint     |-> "Unable to pull container image. Check image name/tag, registry auth, and network."],
    [pattern  |-> << <<"createcontainerconfigerror">> >>,
     category |-> "CreateContainerConfigError", severity |-> "HIGH",
     hint     |-> "Container configuration error. Usually a missing Secret, ConfigMap, or volume mount."],
    [pattern  |-> << <<"readiness", "probe", "failed">>, <<"readinessprobe">> >>,
     category |-> "ReadinessProbeFailure", severity |-> "MEDIUM",
     hint     |-> "Readiness probe failing - pod won't receive traffic. Check health endpoint and port."],
    [pattern  |-> << <<"liveness", "probe", "failed">>, <<"livenessprobe">> >>,
     category |-> "LivenessProbeFailure", severity |-> "HIGH",
     hint     |-> "Liveness probe failing - kubelet will restart the container. Check health endpoint."],
    [pattern  |-> << <<"exceeded", "quota">>, <<"resourcequota">>, <<"forbidden", ".*", "quota">> >>,
     category |-> "ResourceQuotaExceeded", severity |-> "MEDIUM",
     hint     |-> "Resource quota exceeded. Request more quota or reduce resource requests."],
    [pattern  |-> << <<"forbidden">>, <<"unauthorized">>, <<"403">>, <<"rbac">> >>,
     category |-> "PermissionDenied", severity |-> "HIGH",
     hint     |-> "Permission denied. Check RBAC roles, service account, and cluster role bindings."],
    [pattern  |-> << <<"connection", "refused">>, <<"dial", "tcp", ".*", "refused">>,
                     <<"timeout">>, <<"etimedout">>, <<"network", "unreachable">> >>,
     category |-> "NetworkError", severity |-> "HIGH",
     hint     |-> "Network connectivity issue. Check service endpoints, DNS, security groups, and NACLs."],
    [pattern  |-> << <<"state", "lock">>, <<"lock", "id">>,
                     <<"conditionalcheckfailedexception", ".*", "terraform">> >>,
     category |-> "TerraformStateLock", severity |-> "MEDIUM",
     hint     |-> "Terraform state is locked. Check DynamoDB lock table or use force-unlock if safe."],
    [pattern  |-> << <<"provider", ".*", "error">>, <<"nocredentialproviders">>,
                     <<"expiredtoken">>, <<"invalidclienttokenid">> >>,
     category |-> "TerraformProviderError", severity |-> "HIGH",
     hint     |-> "Terraform provider authentication failure. Check AWS credentials and assume-role config."],
    [pattern  |-> << <<"exit", "code", "[1-9]\\d*">>,
                     <<"process", "completed", "with", "exit", "code", "[1-9]">> >>,
     category |-> "CICDPipelineFailure", severity |-> "MEDIUM",
     hint     |-> "Build step failed with a non-zero exit code. Check the failing command output."],
    [pattern  |-> << <<"permission", "denied">>, <<"eacces">> >>,
     category |-> "PermissionDenied", severity |-> "MEDIUM",
     hint     |-> "File/system permission denied. Check file ownership and process privileges."]
>>

(***************************************************************************)
(* Regular-expression matching on lexemes (re.Pattern.findall).            *)
(***************************************************************************)
\* \s* between two words: skip line breaks (blanks between lexemes are implicit).
RECURSIVE SkipSpace(_, _)
SkipSpace(t, k) ==
    IF k <= Len(t) /\ t[k] = "\n" THEN SkipSpace(t, k + 1) ELSE k

\* Match items i.. of alternative alt with the next item starting at lexeme k;
\* last is the index of the last lexeme consumed so far. The result is the index
\* of the last lexeme of the match, or 0 when there is no match.
RECURSIVE MatchFrom(_, _, _, _, _)
MatchFrom(alt, i, t, k, last) ==
    IF i > Len(alt) THEN last
    ELSE IF alt[i] = ".*"
    THEN \* greedy, never across a line break: the rightmost continuation wins
         LET ok == {j \in k..Len(t) :
                       /\ \A m \in k..(j - 1) : t[m] # "\n"
                       /\ Lower(t[j]) = alt[i + 1]
                       /\ MatchFrom(alt, i + 2, t, j + 1, j) # 0}
         IN  IF ok = {} THEN 0
             ELSE LET j == CHOOSE x \in ok : \A y \in ok : y <= x
                  IN  MatchFrom(alt, i + 2, t, j + 1, j)
    ELSE LET k2 == IF i = 1 THEN k ELSE SkipSpace(t, k)
         IN  IF k2 <= Len(t) /\ Lower(t[k2]) = alt[i]
             THEN MatchFrom(alt, i + 1, t, k2 + 1, k2)
             ELSE 0

\* The alternatives of a pattern are tried in order at one start position.
RECURSIVE MatchAlts(_, _, _, _)
MatchAlts(alts, a, t, k) ==
    IF a > Len(alts) THEN 0
    ELSE LET e == MatchFrom(alts[a], 1, t, k, 0)
         IN  IF e # 0 THEN e ELSE MatchAlts(alts, a + 1, t, k)

\* findall: the non-overlapping matches, leftmost first; each match is the
\* matched stretch of the text.
RECURSIVE FindallFrom(_, _, _)
FindallFrom(alts, t, k) ==
    IF k > Len(t) THEN <<>>
    ELSE LET e == MatchAlts(alts, 1, t, k)
         IN  IF e # 0 THEN <<SubSeq(t, k, e)>> \o FindallFrom(alts, t, e + 1)
             ELSE FindallFrom(alts, t, k + 1)

Findall(alts, t) == FindallFrom(alts, t, 1)

(***************************************************************************)
(* log_analyzer.py: classify_errors, get_highest_severity.                 *)
(***************************************************************************)
\* severity_order.get(x["severity"], 5)
SeverityOrder(s) ==
    CASE s = "CRITICAL" -> 0
      [] s = "HIGH" -> 1
      [] s = "MEDIUM" -> 2
      [] s = "LOW" -> 3
      [] s = "INFO" -> 4
      [] OTHER -> 5

\* matches[0] if len(matches) == 1 else matches[:3]
MatchedText(matches) ==
    IF Len(matches) = 1
    THEN [scalar |-> TRUE, items |-> <<matches[1]>>]
    ELSE [scalar |-> FALSE,
          items |-> SubSeq(matches, 1, IF Len(matches) < 3 THEN Len(matches) ELSE 3)]

\* A scan that forgets the seen_categories test.
RECURSIVE ScanPatternsNoSeen(_, _, _, _)
ScanPatternsNoSeen(t, i, acc, seen) ==
    IF i > Len(ERROR_PATTERNS) THEN acc
    ELSE LET entry == ERROR_PATTERNS[i]
             matches == Findall(entry.pattern, t)
         IN  IF matches # <<>>
             THEN ScanPatternsNoSeen(t, i + 1,
                      Append(acc, [category     |-> entry.category,
                                   severity     |-> entry.severity,
                                   hint         |-> entry.hint,
                                   matched_text |-> MatchedText(matches),
                                   match_count  |-> Len(matches)]),
                      seen \cup {entry.category})
             ELSE ScanPatternsNoSeen(t, i + 1, acc, seen)

\* A scan that leaves the loop at the first signature that matches.
RECURSIVE ScanPatternsFirstHit(_, _, _, _)
ScanPatternsFirstHit(t, i, acc, seen) ==
    IF i > Len(ERROR_PATTERNS) THEN acc
    ELSE LET entry == ERROR_PATTERNS[i]
             matches == Findall(entry.pattern, t)
         IN  IF matches # <<>>
             THEN Append(acc, [category     |-> entry.category,
                               severity     |-> entry.severity,
                               hint         |-> entry.hint,
                               matched_text |-> MatchedText(matches),
                               match_count  |-> Len(matches)])
             ELSE ScanPatternsFirstHit(t, i + 1, acc, seen)

\* A scan in which a later signature of a category replaces the earlier entry.
RECURSIVE ScanPatternsLastWins(_, _, _, _)
ScanPatternsLastWins(t, i, acc, seen) ==
    IF i > Len(ERROR_PATTERNS) THEN acc
    ELSE LET entry == ERROR_PATTERNS[i]
             matches == Findall(entry.pattern, t)
         IN  IF matches # <<>>
             THEN ScanPatternsLastWins(t, i + 1,
                      Append(SelectSeq(acc, LAMBDA c : c.category # entry.category),
                             [category     |-> entry.category,
                              severity     |-> entry.severity,
                              hint         |-> entry.hint,
                              matched_text |-> MatchedText(matches),
                              match_count  |-> Len(matches)]),
                      seen \cup {entry.category})
             ELSE ScanPatternsLastWins(t, i + 1, acc, seen)

\* One pass of the loop over ERROR_PATTERNS: entry i, with the classifications
\* appended and the categories seen so far.
RECURSIVE ScanPatterns(_, _, _, _)
ScanPatterns(t, i, acc, seen) ==
    IF i > Len(ERROR_PATTERNS) THEN acc
    ELSE LET entry == ERROR_PATTERNS[i]
             matches == Findall(entry.pattern, t)
         IN  IF matches # <<>> /\ entry.category \notin seen
             THEN ScanPatterns(t, i + 1,
                      Append(acc, [category     |-> entry.category,
                                   severity     |-> entry.severity,
                                   hint         |-> entry.hint,
                                   matched_text |-> MatchedText(matches),
                                   match_count  |-> Len(matches)]),
                      seen \cup {entry.category})
             ELSE ScanPatterns(t, i + 1, acc, seen)

\* A classifier that returns the entries in registry order, unsorted.
SortBySeverityOmitted(cs) == cs

\* A sort by severity that is not stable: entries of one rank come out in
\* reverse order.
SortBySeverityUnstable(cs) ==
    LET Bucket(r) == SelectSeq(cs, LAMBDA c : SeverityOrder(c.severity) = r)
        Reverse(s) == [i \in 1..Len(s) |-> s[Len(s) + 1 - i]]
    IN  Reverse(Bucket(0)) \o Reverse(Bucket(1)) \o Reverse(Bucket(2))
            \o Reverse(Bucket(3)) \o Reverse(Bucket(4)) \o Reverse(Bucket(5))

\* list.sort(key=severity_order...) is stable: entries of one rank keep their order.
SortBySeverity(cs) ==
    LET Bucket(r) == SelectSeq(cs, LAMBDA c : SeverityOrder(c.severity) = r)
    IN  Bucket(0) \o Bucket(1) \o Bucket(2) \o Bucket(3) \o Bucket(4) \o Bucket(5)

ClassifyErrors(t) == SortBySeverity(ScanPatterns(t, 1, <<>>, {}))

\* A get_highest_severity that reads the last entry instead of the first.
GetHighestSeverityLast(cs) ==
    IF cs = <<>> THEN "INFO"
    ELSE IF cs[Len(cs)].severity \in Severity THEN cs[Len(cs)].severity ELSE "INFO"

GetHighestSeverity(cs) ==
    IF cs = <<>> THEN "INFO"
    ELSE IF cs[1].severity \in Severity THEN cs[1].severity ELSE "INFO"

(***************************************************************************)
(* rag_chain.py: the runbook store and its in-memory cache.                *)
(***************************************************************************)
\* The markdown files the runbook directory may hold, in glob order. A file
\* that cannot be read makes open()/read() raise.
Corpus == <<
    [filename |-> "oomkilled.md", readable |-> TRUE,
     content  |-> <<"#", "OOMKilled", "\n", "oomkilled", "memory", "quota">>],
    [filename |-> "terraform-state-lock.md", readable |-> FALSE,
     content  |-> <<"#", "Terraform", "\n", "state", "lock">>],
    [filename |-> "crashloopbackoff.md", readable |-> TRUE,
     content  |-> <<"#", "CrashLoopBackOff", "\n", "oomkilled", "forbidden", "hello">>],
    [filename |-> "imagepullbackoff.md", readable |-> TRUE,
     content  |-> <<"#", "ImagePullBackOff", "\n", "forbidden", "registry">>]
>>

\* The document store: the directory is missing, or holds the first n files.
Stores ==
    {[exists |-> FALSE, files |-> <<>>]}
        \cup {[exists |-> TRUE, files |-> SubSeq(Corpus, 1, n)] : n \in 0..MaxDocs}

\* content.split("\n")[0]
RECURSIVE FirstLine(_)
FirstLine(c) ==
    IF c = <<>> \/ Head(c) = "\n" THEN <<>> ELSE <<Head(c)>> \o FirstLine(Tail(c))

\* content.split("\n")[0].replace("#", "").strip()
Title(c) == SelectSeq(FirstLine(c), LAMBDA w : w # "#")

\* The entry load_runbooks appends for one file.
RunbookEntry(f) ==
    [filename |-> f.filename, title |-> Title(f.content), content |-> f.content]

\* The loop of load_runbooks over the files from index i on: unreadable files
\* are skipped, the others appended.
RECURSIVE AppendFiles(_, _, _)
AppendFiles(cache, files, i) ==
    IF i > Len(files) THEN cache
    ELSE AppendFiles(IF files[i].readable THEN Append(cache, RunbookEntry(files[i]))
                     ELSE cache,
                     files, i + 1)

\* A loader without the cache check: every call reads the files again.
LoadRunbooksReload(cache, st) ==
    IF ~st.exists
    THEN [cache |-> cache, runbooks |-> <<>>, obj |-> "fresh", read |-> TRUE]
    ELSE LET loaded == AppendFiles(cache, st.files, 1)
         IN  [cache |-> loaded, runbooks |-> loaded, obj |-> "cache", read |-> TRUE]

\* A loader that hands out a copy of the cache.
LoadRunbooksCopy(cache, st) ==
    IF cache # <<>>
    THEN [cache |-> cache, runbooks |-> cache, obj |-> "fresh", read |-> FALSE]
    ELSE IF ~st.exists
    THEN [cache |-> cache, runbooks |-> <<>>, obj |-> "fresh", read |-> TRUE]
    ELSE LET loaded == AppendFiles(cache, st.files, 1)
         IN  [cache |-> loaded, runbooks |-> loaded, obj |-> "fresh", read |-> TRUE]

\* A loader that falls back to the bundled corpus when the directory is missing.
LoadRunbooksBundled(cache, st) ==
    IF cache # <<>>
    THEN [cache |-> cache, runbooks |-> cache, obj |-> "cache", read |-> FALSE]
    ELSE LET loaded == AppendFiles(cache, IF st.exists THEN st.files ELSE Corpus, 1)
         IN  [cache |-> loaded, runbooks |-> loaded, obj |-> "cache", read |-> TRUE]

\* load_runbooks run without interruption: the cache afterwards, the list
\* returned, which object that list is (the cache itself or a fresh list) and
\* whether the call went past the cache check to the file system.
LoadRunbooks(cache, st) ==
    IF cache # <<>>
    THEN [cache |-> cache, runbooks |-> cache, obj |-> "cache", read |-> FALSE]
    ELSE IF ~st.exists
    THEN [cache |-> cache, runbooks |-> <<>>, obj |-> "fresh", read |-> TRUE]
    ELSE LET loaded == AppendFiles(cache, st.files, 1)
         IN  [cache |-> loaded, runbooks |-> loaded, obj |-> "cache", read |-> TRUE]

(***************************************************************************)
(* Python string slicing, in characters.                                   *)
(***************************************************************************)
\* A line of 499 characters without white space.
LongLine == "[a line of 499 characters]"

\* The number of characters of a lexeme.
CharLen(w) ==
    CASE w = LongLine -> 499
      [] w \in {"OOMKilled", "oomkilled", "forbidden"} -> 9
      [] w = "readinessProbe" -> 14
      [] w \in {"EACCES", "memory"} -> 6
      [] w \in {"quota", "hello"} -> 5
      [] w \in {"ImagePullBackOff", "CrashLoopBackOff"} -> 16
      [] w \in {"registry"} -> 8
      [] w = "oom" -> 3
      [] OTHER -> 1

\* The characters of the first k lexemes of t, blanks between them included.
RECURSIVE Chars(_, _)
Chars(t, k) == IF k = 0 THEN 0 ELSE Chars(t, k - 1) + CharLen(t[k]) + (IF k > 1 THEN 1 ELSE 0)

\* w[:n] for a lexeme longer than n characters.
Prefix(w, n) == w \o "[:" \o ToString(n) \o "]"

\* A slice that keeps the whole text.
TruncateOmitted(t, n) == t

\* t[:n] in characters: the lexemes that fit in the first n characters whole,
\* and the prefix of the next one that the remaining characters hold.
Truncate(t, n) ==
    LET fits == {k \in 0..Len(t) : Chars(t, k) <= n}
        k == CHOOSE i \in fits : \A j \in fits : j <= i
        room == n - Chars(t, k) - (IF k > 0 THEN 1 ELSE 0)
    IN  IF k = Len(t) THEN t
        ELSE IF room > 0 THEN SubSeq(t, 1, k) \o <<Prefix(t[k + 1], room)>>
        ELSE SubSeq(t, 1, k)

(***************************************************************************)
(* rag_chain.py: search_runbooks.                                          *)
(***************************************************************************)
Range(s) == {s[i] : i \in DOMAIN s}

\* set(query.lower().split())
QueryWords(query) == {Lower(w) : w \in Range(query) \ {"\n"}}

\* The pairs <<a, b>> of lowercased lexemes of the model with a a proper
\* substring of b.
ProperInfixes == {<<"oom", "oomkilled">>}

\* word in content_lower: the word occurs in the lowercased content as a
\* substring (a word holds no white space, so it lies inside one lexeme).
WordIn(w, content) ==
    \E i \in DOMAIN content :
        Lower(content[i]) = w \/ <<w, Lower(content[i])>> \in ProperInfixes

\* sum(1 for word in query_words if word in content_lower)
KeywordMatches(words, content) == Cardinality({w \in words : WordIn(w, content)})

\* min(matches / max(len(query_words), 1), 1.0), as a fraction num/den
RelevanceScore(matches, nwords) ==
    LET den == IF nwords > 1 THEN nwords ELSE 1
    IN  IF matches > den THEN [num |-> 1, den |-> 1] ELSE [num |-> matches, den |-> den]

\* a < b on fractions
ScoreLess(a, b) == a.num * b.den < b.num * a.den

\* A loop that scores every runbook, matching or not.
RECURSIVE ScoreRunbooksAll(_, _, _)
ScoreRunbooksAll(runbooks, words, i) ==
    IF i > Len(runbooks) THEN <<>>
    ELSE LET rb == runbooks[i]
             matches == KeywordMatches(words, rb.content)
         IN  <<[title           |-> rb.title,
                filename        |-> rb.filename,
                relevance_score |-> RelevanceScore(matches, Cardinality(words)),
                summary         |-> Truncate(rb.content, SummaryChars) \o <<"...">>]>>
                 \o ScoreRunbooksAll(runbooks, words, i + 1)

\* The loop of search_runbooks: one scored entry per runbook with a match.
RECURSIVE ScoreRunbooks(_, _, _)
ScoreRunbooks(runbooks, words, i) ==
    IF i > Len(runbooks) THEN <<>>
    ELSE LET rb == runbooks[i]
             matches == KeywordMatches(words, rb.content)
             rest == ScoreRunbooks(runbooks, words, i + 1)
         IN  IF matches > 0
             THEN <<[title           |-> rb.title,
                     filename        |-> rb.filename,
                     relevance_score |-> RelevanceScore(matches, Cardinality(words)),
                     summary         |-> Truncate(rb.content, SummaryChars) \o <<"...">>]>>
                 \o rest
             ELSE rest

\* The scored list left in the order of the cache.
SortByScoreOmitted(scored) == scored

\* scored.sort(key=relevance_score, reverse=True): stable, highest score first.
RECURSIVE SortByScore(_)
SortByScore(scored) ==
    IF scored = <<>> THEN <<>>
    ELSE LET best == CHOOSE i \in DOMAIN scored :
                        /\ \A j \in DOMAIN scored :
                              ~ScoreLess(scored[i].relevance_score, scored[j].relevance_score)
                        /\ \A j \in 1..(i - 1) :
                              ScoreLess(scored[j].relevance_score, scored[i].relevance_score)
         IN  <<scored[best]>>
                 \o SortByScore(SubSeq(scored, 1, best - 1)
                                    \o SubSeq(scored, best + 1, Len(scored)))

\* scored[:top_k]
Take(s, n) == SubSeq(s, 1, IF Len(s) < n THEN Len(s) ELSE n)

\* search_runbooks(query, top_k) over the list load_runbooks returned.
SearchRunbooks(runbooks, query, top_k) ==
    IF runbooks = <<>> THEN <<>>
    ELSE Take(SortByScore(ScoreRunbooks(runbooks, QueryWords(query), 1)), top_k)

\* [rb["filename"] for rb in runbooks]
RECURSIVE Filenames(_)
Filenames(runbooks) ==
    IF runbooks = <<>> THEN <<>>
    ELSE <<runbooks[1].filename>> \o Filenames(Tail(runbooks))

(***************************************************************************)
(* JSON values, as json.loads builds them. A string is a sequence of        *)
(* lexemes; a dict is a function from its keys.                            *)
(***************************************************************************)
JNull == [type |-> "null", s |-> <<>>, items |-> <<>>, obj |-> <<>>]
JStr(x) == [type |-> "string", s |-> x, items |-> <<>>, obj |-> <<>>]
JNum(x) == [type |-> "number", s |-> <<x>>, items |-> <<>>, obj |-> <<>>]
JArr(xs) == [type |-> "array", s |-> <<>>, items |-> xs, obj |-> <<>>]
JObj(f) == [type |-> "object", s |-> <<>>, items |-> <<>>, obj |-> f]

\* A Python string literal.
Lit(str) == JStr(<<str>>)

\* dict.get(key, default)
Get(d, key, default) == IF key \in DOMAIN d THEN d[key] ELSE default

\* An assignment d[key] = default in place of setdefault.
SetdefaultOverwrite(d, key, default) ==
    [k \in DOMAIN d \cup {key} |-> IF k = key THEN default ELSE d[k]]

\* dict.setdefault(key, default)
Setdefault(d, key, default) == IF key \in DOMAIN d THEN d ELSE d @@ (key :> default)

\* A list of Python strings as a JSON array.
RECURSIVE StrList(_)
StrList(names) ==
    IF names = <<>> THEN <<>> ELSE <<Lit(names[1])>> \o StrList(Tail(names))

(***************************************************************************)
(* The replies of the reasoning engine: raw text as a sequence of tokens   *)
(* (the code fence, its language tag, a line break, a payload), and what   *)
(* json.loads makes of each payload.                                       *)
(***************************************************************************)
\* FENCE stands for the three backquotes of a markdown code fence.
FENCE == "[fence]"
LANG == "json"
NL == "\n"

PAYLOADS == <<
    [text |-> "{\"root_cause\":\"x\",\"severity\":\"HIGH\",\"error_category\":\"OOMKilled\",\"explanation\":\"y\",\"fix_commands\":[{\"command\":\"kubectl get pods\",\"description\":\"list pods\",\"risk_level\":\"LOW\"}],\"prevention_tips\":[\"tip\"],\"related_runbooks\":[\"oomkilled.md\"]}",
     ok |-> TRUE, value |-> JObj(("root_cause" :> JStr(<<"x">>))
                  @@ ("severity" :> JStr(<<"HIGH">>))
                  @@ ("error_category" :> JStr(<<"OOMKilled">>))
                  @@ ("explanation" :> JStr(<<"y">>))
                  @@ ("fix_commands" :> JArr(<<JObj(("command" :> JStr(<<"kubectl get pods">>)) @@ ("description" :> JStr(<<"list pods">>)) @@ ("risk_level" :> JStr(<<"LOW">>)))>>))
                  @@ ("prevention_tips" :> JArr(<<JStr(<<"tip">>)>>))
                  @@ ("related_runbooks" :> JArr(<<JStr(<<"oomkilled.md">>)>>)))],
    [text |-> "{\"severity\":\"HIGH\",\"error_category\":\"OOMKilled\",\"explanation\":\"y\",\"fix_commands\":[{\"command\":\"kubectl get pods\",\"description\":\"list pods\",\"risk_level\":\"LOW\"}],\"prevention_tips\":[\"tip\"],\"related_runbooks\":[\"oomkilled.md\"]}",
     ok |-> TRUE, value |-> JObj(("severity" :> JStr(<<"HIGH">>))
                  @@ ("error_category" :> JStr(<<"OOMKilled">>))
                  @@ ("explanation" :> JStr(<<"y">>))
                  @@ ("fix_commands" :> JArr(<<JObj(("command" :> JStr(<<"kubectl get pods">>)) @@ ("description" :> JStr(<<"list pods">>)) @@ ("risk_level" :> JStr(<<"LOW">>)))>>))
                  @@ ("prevention_tips" :> JArr(<<JStr(<<"tip">>)>>))
                  @@ ("related_runbooks" :> JArr(<<JStr(<<"oomkilled.md">>)>>)))],
    [text |-> "{\"root_cause\":\"x\",\"error_category\":\"OOMKilled\",\"explanation\":\"y\",\"fix_commands\":[{\"command\":\"kubectl get pods\",\"description\":\"list pods\",\"risk_level\":\"LOW\"}],\"prevention_tips\":[\"tip\"],\"related_runbooks\":[\"oomkilled.md\"]}",
     ok |-> TRUE, value |-> JObj(("root_cause" :> JStr(<<"x">>))
                  @@ ("error_category" :> JStr(<<"OOMKilled">>))
                  @@ ("explanation" :> JStr(<<"y">>))
                  @@ ("fix_commands" :> JArr(<<JObj(("command" :> JStr(<<"kubectl get pods">>)) @@ ("description" :> JStr(<<"list pods">>)) @@ ("risk_level" :> JStr(<<"LOW">>)))>>))
                  @@ ("prevention_tips" :> JArr(<<JStr(<<"tip">>)>>))
                  @@ ("related_runbooks" :> JArr(<<JStr(<<"oomkilled.md">>)>>)))],
    [text |-> "{\"root_cause\":\"x\",\"severity\":\"HIGH\",\"explanation\":\"y\",\"fix_commands\":[{\"command\":\"kubectl get pods\",\"description\":\"list pods\",\"risk_level\":\"LOW\"}],\"prevention_tips\":[\"tip\"],\"related_runbooks\":[\"oomkilled.md\"]}",
     ok |-> TRUE, value |-> JObj(("root_cause" :> JStr(<<"x">>))
                  @@ ("severity" :> JStr(<<"HIGH">>))
                  @@ ("explanation" :> JStr(<<"y">>))
                  @@ ("fix_commands" :> JArr(<<JObj(("command" :> JStr(<<"kubectl get pods">>)) @@ ("description" :> JStr(<<"list pods">>)) @@ ("risk_level" :> JStr(<<"LOW">>)))>>))
                  @@ ("prevention_tips" :> JArr(<<JStr(<<"tip">>)>>))
                  @@ ("related_runbooks" :> JArr(<<JStr(<<"oomkilled.md">>)>>)))],
    [text |-> "{\"root_cause\":\"x\",\"severity\":\"HIGH\",\"error_category\":\"OOMKilled\",\"fix_commands\":[{\"command\":\"kubectl get pods\",\"description\":\"list pods\",\"risk_level\":\"LOW\"}],\"prevention_tips\":[\"tip\"],\"related_runbooks\":[\"oomkilled.md\"]}",
     ok |-> TRUE, value |-> JObj(("root_cause" :> JStr(<<"x">>))
                  @@ ("severity" :> JStr(<<"HIGH">>))
                  @@ ("error_category" :> JStr(<<"OOMKilled">>))
                  @@ ("fix_commands" :> JArr(<<JObj(("command" :> JStr(<<"kubectl get pods">>)) @@ ("description" :> JStr(<<"list pods">>)) @@ ("risk_level" :> JStr(<<"LOW">>)))>>))
                  @@ ("prevention_tips" :> JArr(<<JStr(<<"tip">>)>>))
                  @@ ("related_runbooks" :> JArr(<<JStr(<<"oomkilled.md">>)>>)))],
    [text |-> "{\"root_cause\":\"x\",\"severity\":\"HIGH\",\"error_category\":\"OOMKilled\",\"explanation\":\"y\",\"prevention_tips\":[\"tip\"],\"related_runbooks\":[\"oomkilled.md\"]}",
     ok |-> TRUE, value |-> JObj(("root_cause" :> JStr(<<"x">>))
                  @@ ("severity" :> JStr(<<"HIGH">>))
                  @@ ("error_category" :> JStr(<<"OOMKilled">>))
                  @@ ("explanation" :> JStr(<<"y">>))
                  @@ ("prevention_tips" :> JArr(<<JStr(<<"tip">>)>>))
                  @@ ("related_runbooks" :> JArr(<<JStr(<<"oomkilled.md">>)>>)))],
    [text |-> "{\"root_cause\":\"x\",\"severity\":\"HIGH\",\"error_category\":\"OOMKilled\",\"explanation\":\"y\",\"fix_commands\":[{\"command\":\"kubectl get pods\",\"description\":\"list pods\",\"risk_level\":\"LOW\"}],\"related_runbooks\":[\"oomkilled.md\"]}",
     ok |-> TRUE, value |-> JObj(("root_cause" :> JStr(<<"x">>))
                  @@ ("severity" :> JStr(<<"HIGH">>))
                  @@ ("error_category" :> JStr(<<"OOMKilled">>))
                  @@ ("explanation" :> JStr(<<"y">>))
                  @@ ("fix_commands" :> JArr(<<JObj(("command" :> JStr(<<"kubectl get pods">>)) @@ ("description" :> JStr(<<"list pods">>)) @@ ("risk_level" :> JStr(<<"LOW">>)))>>))
                  @@ ("related_runbooks" :> JArr(<<JStr(<<"oomkilled.md">>)>>)))],
    [text |-> "{\"root_cause\":\"x\",\"severity\":\"HIGH\",\"error_category\":\"OOMKilled\",\"explanation\":\"y\",\"fix_commands\":[{\"command\":\"kubectl get pods\",\"description\":\"list pods\",\"risk_level\":\"LOW\"}],\"prevention_tips\":[\"tip\"]}",
     ok |-> TRUE, value |-> JObj(("root_cause" :> JStr(<<"x">>))
                  @@ ("severity" :> JStr(<<"HIGH">>))
                  @@ ("error_category" :> JStr(<<"OOMKilled">>))
                  @@ ("explanation" :> JStr(<<"y">>))
                  @@ ("fix_commands" :> JArr(<<JObj(("command" :> JStr(<<"kubectl get pods">>)) @@ ("description" :> JStr(<<"list pods">>)) @@ ("risk_level" :> JStr(<<"LOW">>)))>>))
                  @@ ("prevention_tips" :> JArr(<<JStr(<<"tip">>)>>)))],
    [text |-> "{\"root_cause\":null,\"severity\":\"HIGH\",\"error_category\":\"OOMKilled\",\"explanation\":\"y\",\"fix_commands\":[{\"command\":\"kubectl get pods\",\"description\":\"list pods\",\"risk_level\":\"LOW\"}],\"prevention_tips\":[\"tip\"],\"related_runbooks\":[\"oomkilled.md\"]}",
     ok |-> TRUE, value |-> JObj(("root_cause" :> JNull)
                  @@ ("severity" :> JStr(<<"HIGH">>))
                  @@ ("error_category" :> JStr(<<"OOMKilled">>))
                  @@ ("explanation" :> JStr(<<"y">>))
                  @@ ("fix_commands" :> JArr(<<JObj(("command" :> JStr(<<"kubectl get pods">>)) @@ ("description" :> JStr(<<"list pods">>)) @@ ("risk_level" :> JStr(<<"LOW">>)))>>))
                  @@ ("prevention_tips" :> JArr(<<JStr(<<"tip">>)>>))
                  @@ ("related_runbooks" :> JArr(<<JStr(<<"oomkilled.md">>)>>)))],
    [text |-> "{\"root_cause\":\"x\",\"severity\":null,\"error_category\":\"OOMKilled\",\"explanation\":\"y\",\"fix_commands\":[{\"command\":\"kubectl get pods\",\"description\":\"list pods\",\"risk_level\":\"LOW\"}],\"prevention_tips\":[\"tip\"],\"related_runbooks\":[\"oomkilled.md\"]}",
     ok |-> TRUE, value |-> JObj(("root_cause" :> JStr(<<"x">>))
                  @@ ("severity" :> JNull)
                  @@ ("error_category" :> JStr(<<"OOMKilled">>))
                  @@ ("explanation" :> JStr(<<"y">>))
                  @@ ("fix_commands" :> JArr(<<JObj(("command" :> JStr(<<"kubectl get pods">>)) @@ ("description" :> JStr(<<"list pods">>)) @@ ("risk_level" :> JStr(<<"LOW">>)))>>))
                  @@ ("prevention_tips" :> JArr(<<JStr(<<"tip">>)>>))
                  @@ ("related_runbooks" :> JArr(<<JStr(<<"oomkilled.md">>)>>)))],
    [text |-> "{\"root_cause\":\"x\",\"severity\":\"HIGH\",\"error_category\":null,\"explanation\":\"y\",\"fix_commands\":[{\"command\":\"kubectl get pods\",\"description\":\"list pods\",\"risk_level\":\"LOW\"}],\"prevention_tips\":[\"tip\"],\"related_runbooks\":[\"oomkilled.md\"]}",
     ok |-> TRUE, value |-> JObj(("root_cause" :> JStr(<<"x">>))
                  @@ ("severity" :> JStr(<<"HIGH">>))
                  @@ ("error_category" :> JNull)
                  @@ ("explanation" :> JStr(<<"y">>))
                  @@ ("fix_commands" :> JArr(<<JObj(("command" :> JStr(<<"kubectl get pods">>)) @@ ("description" :> JStr(<<"list pods">>)) @@ ("risk_level" :> JStr(<<"LOW">>)))>>))
                  @@ ("prevention_tips" :> JArr(<<JStr(<<"tip">>)>>))
                  @@ ("related_runbooks" :> JArr(<<JStr(<<"oomkilled.md">>)>>)))],
    [text |-> "{\"root_cause\":\"x\",\"severity\":\"HIGH\",\"error_category\":\"OOMKilled\",\"explanation\":null,\"fix_commands\":[{\"command\":\"kubectl get pods\",\"description\":\"list pods\",\"risk_level\":\"LOW\"}],\"prevention_tips\":[\"tip\"],\"related_runbooks\":[\"oomkilled.md\"]}",
     ok |-> TRUE, value |-> JObj(("root_cause" :> JStr(<<"x">>))
                  @@ ("severity" :> JStr(<<"HIGH">>))
                  @@ ("error_category" :> JStr(<<"OOMKilled">>))
                  @@ ("explanation" :> JNull)
                  @@ ("fix_commands" :> JArr(<<JObj(("command" :> JStr(<<"kubectl get pods">>)) @@ ("description" :> JStr(<<"list pods">>)) @@ ("risk_level" :> JStr(<<"LOW">>)))>>))
                  @@ ("prevention_tips" :> JArr(<<JStr(<<"tip">>)>>))
                  @@ ("related_runbooks" :> JArr(<<JStr(<<"oomkilled.md">>)>>)))],
    [text |-> "{\"root_cause\":\"x\",\"severity\":\"HIGH\",\"error_category\":\"OOMKilled\",\"explanation\":\"y\",\"fix_commands\":null,\"prevention_tips\":[\"tip\"],\"related_runbooks\":[\"oomkilled.md\"]}",
     ok |-> TRUE, value |-> JObj(("root_cause" :> JStr(<<"x">>))
                  @@ ("severity" :> JStr(<<"HIGH">>))
                  @@ ("error_category" :> JStr(<<"OOMKilled">>))
                  @@ ("explanation" :> JStr(<<"y">>))
                  @@ ("fix_commands" :> JNull)
                  @@ ("prevention_tips" :> JArr(<<JStr(<<"tip">>)>>))
                  @@ ("related_runbooks" :> JArr(<<JStr(<<"oomkilled.md">>)>>)))],
    [text |-> "{\"root_cause\":\"x\",\"severity\":\"HIGH\",\"error_category\":\"OOMKilled\",\"explanation\":\"y\",\"fix_commands\":[{\"command\":\"kubectl get pods\",\"description\":\"list pods\",\"risk_level\":\"LOW\"}],\"prevention_tips\":null,\"related_runbooks\":[\"oomkilled.md\"]}",
     ok |-> TRUE, value |-> JObj(("root_cause" :> JStr(<<"x">>))
                  @@ ("severity" :> JStr(<<"HIGH">>))
                  @@ ("error_category" :> JStr(<<"OOMKilled">>))
                  @@ ("explanation" :> JStr(<<"y">>))
                  @@ ("fix_commands" :> JArr(<<JObj(("command" :> JStr(<<"kubectl get pods">>)) @@ ("description" :> JStr(<<"list pods">>)) @@ ("risk_level" :> JStr(<<"LOW">>)))>>))
                  @@ ("prevention_tips" :> JNull)
                  @@ ("related_runbooks" :> JArr(<<JStr(<<"oomkilled.md">>)>>)))],
    [text |-> "{\"root_cause\":\"x\",\"severity\":\"HIGH\",\"error_category\":\"OOMKilled\",\"explanation\":\"y\",\"fix_commands\":[{\"command\":\"kubectl get pods\",\"description\":\"list pods\",\"risk_level\":\"LOW\"}],\"prevention_tips\":[\"tip\"],\"related_runbooks\":null}",
     ok |-> TRUE, value |-> JObj(("root_cause" :> JStr(<<"x">>))
                  @@ ("severity" :> JStr(<<"HIGH">>))
                  @@ ("error_category" :> JStr(<<"OOMKilled">>))
                  @@ ("explanation" :> JStr(<<"y">>))
                  @@ ("fix_commands" :> JArr(<<JObj(("command" :> JStr(<<"kubectl get pods">>)) @@ ("description" :> JStr(<<"list pods">>)) @@ ("risk_level" :> JStr(<<"LOW">>)))>>))
                  @@ ("prevention_tips" :> JArr(<<JStr(<<"tip">>)>>))
                  @@ ("related_runbooks" :> JNull))],
    [text |-> "{\"root_cause\":\"x\",\"severity\":\"BOGUS\",\"error_category\":\"OOMKilled\",\"explanation\":\"y\",\"fix_commands\":[{\"command\":\"kubectl get pods\",\"description\":\"list pods\",\"risk_level\":\"LOW\"}],\"prevention_tips\":[\"tip\"],\"related_runbooks\":[\"oomkilled.md\"]}",
     ok |-> TRUE, value |-> JObj(("root_cause" :> JStr(<<"x">>))
                  @@ ("severity" :> JStr(<<"BOGUS">>))
                  @@ ("error_category" :> JStr(<<"OOMKilled">>))
                  @@ ("explanation" :> JStr(<<"y">>))
                  @@ ("fix_commands" :> JArr(<<JObj(("command" :> JStr(<<"kubectl get pods">>)) @@ ("description" :> JStr(<<"list pods">>)) @@ ("risk_level" :> JStr(<<"LOW">>)))>>))
                  @@ ("prevention_tips" :> JArr(<<JStr(<<"tip">>)>>))
                  @@ ("related_runbooks" :> JArr(<<JStr(<<"oomkilled.md">>)>>)))],
    [text |-> "{\"root_cause\":\"x\",\"severity\":\"high\",\"error_category\":\"OOMKilled\",\"explanation\":\"y\",\"fix_commands\":[{\"command\":\"kubectl get pods\",\"description\":\"list pods\",\"risk_level\":\"LOW\"}],\"prevention_tips\":[\"tip\"],\"related_runbooks\":[\"oomkilled.md\"]}",
     ok |-> TRUE, value |-> JObj(("root_cause" :> JStr(<<"x">>))
                  @@ ("severity" :> JStr(<<"high">>))
                  @@ ("error_category" :> JStr(<<"OOMKilled">>))
                  @@ ("explanation" :> JStr(<<"y">>))
                  @@ ("fix_commands" :> JArr(<<JObj(("command" :> JStr(<<"kubectl get pods">>)) @@ ("description" :> JStr(<<"list pods">>)) @@ ("risk_level" :> JStr(<<"LOW">>)))>>))
                  @@ ("prevention_tips" :> JArr(<<JStr(<<"tip">>)>>))
                  @@ ("related_runbooks" :> JArr(<<JStr(<<"oomkilled.md">>)>>)))],
    [text |-> "{\"root_cause\":\"x\",\"severity\":\"HIGH\",\"error_category\":\"DiskFull\",\"explanation\":\"y\",\"fix_commands\":[{\"command\":\"kubectl get pods\",\"description\":\"list pods\",\"risk_level\":\"LOW\"}],\"prevention_tips\":[\"tip\"],\"related_runbooks\":[\"oomkilled.md\"]}",
     ok |-> TRUE, value |-> JObj(("root_cause" :> JStr(<<"x">>))
                  @@ ("severity" :> JStr(<<"HIGH">>))
                  @@ ("error_category" :> JStr(<<"DiskFull">>))
                  @@ ("explanation" :> JStr(<<"y">>))
                  @@ ("fix_commands" :> JArr(<<JObj(("command" :> JStr(<<"kubectl get pods">>)) @@ ("description" :> JStr(<<"list pods">>)) @@ ("risk_level" :> JStr(<<"LOW">>)))>>))
                  @@ ("prevention_tips" :> JArr(<<JStr(<<"tip">>)>>))
                  @@ ("related_runbooks" :> JArr(<<JStr(<<"oomkilled.md">>)>>)))],
    [text |-> "{\"root_cause\":7,\"severity\":\"HIGH\",\"error_category\":\"OOMKilled\",\"explanation\":\"y\",\"fix_commands\":[{\"command\":\"kubectl get pods\",\"description\":\"list pods\",\"risk_level\":\"LOW\"}],\"prevention_tips\":[\"tip\"],\"related_runbooks\":[\"oomkilled.md\"]}",
     ok |-> TRUE, value |-> JObj(("root_cause" :> JNum("7"))
                  @@ ("severity" :> JStr(<<"HIGH">>))
                  @@ ("error_category" :> JStr(<<"OOMKilled">>))
                  @@ ("explanation" :> JStr(<<"y">>))
                  @@ ("fix_commands" :> JArr(<<JObj(("command" :> JStr(<<"kubectl get pods">>)) @@ ("description" :> JStr(<<"list pods">>)) @@ ("risk_level" :> JStr(<<"LOW">>)))>>))
                  @@ ("prevention_tips" :> JArr(<<JStr(<<"tip">>)>>))
                  @@ ("related_runbooks" :> JArr(<<JStr(<<"oomkilled.md">>)>>)))],
    [text |-> "{\"root_cause\":\"x\",\"severity\":\"HIGH\",\"error_category\":\"OOMKilled\",\"explanation\":\"y\",\"fix_commands\":[],\"prevention_tips\":[\"tip\"],\"related_runbooks\":[\"oomkilled.md\"]}",
     ok |-> TRUE, value |-> JObj(("root_cause" :> JStr(<<"x">>))
                  @@ ("severity" :> JStr(<<"HIGH">>))
                  @@ ("error_category" :> JStr(<<"OOMKilled">>))
                  @@ ("explanation" :> JStr(<<"y">>))
                  @@ ("fix_commands" :> JArr(<<>>))
                  @@ ("prevention_tips" :> JArr(<<JStr(<<"tip">>)>>))
                  @@ ("related_runbooks" :> JArr(<<JStr(<<"oomkilled.md">>)>>)))],
    [text |-> "{\"root_cause\":\"x\",\"severity\":\"HIGH\",\"error_category\":\"OOMKilled\",\"explanation\":\"y\",\"fix_commands\":[\"restart the pod\"],\"prevention_tips\":[\"tip\"],\"related_runbooks\":[\"oomkilled.md\"]}",
     ok |-> TRUE, value |-> JObj(("root_cause" :> JStr(<<"x">>))
                  @@ ("severity" :> JStr(<<"HIGH">>))
                  @@ ("error_category" :> JStr(<<"OOMKilled">>))
                  @@ ("explanation" :> JStr(<<"y">>))
                  @@ ("fix_commands" :> JArr(<<JStr(<<"restart the pod">>)>>))
                  @@ ("prevention_tips" :> JArr(<<JStr(<<"tip">>)>>))
                  @@ ("related_runbooks" :> JArr(<<JStr(<<"oomkilled.md">>)>>)))],
    [text |-> "{\"root_cause\":\"x\",\"severity\":\"HIGH\",\"error_category\":\"OOMKilled\",\"explanation\":\"y\",\"fix_commands\":[{}],\"prevention_tips\":[\"tip\"],\"related_runbooks\":[\"oomkilled.md\"]}",
     ok |-> TRUE, value |-> JObj(("root_cause" :> JStr(<<"x">>))
                  @@ ("severity" :> JStr(<<"HIGH">>))
                  @@ ("error_category" :> JStr(<<"OOMKilled">>))
                  @@ ("explanation" :> JStr(<<"y">>))
                  @@ ("fix_commands" :> JArr(<<JObj(<<>>)>>))
                  @@ ("prevention_tips" :> JArr(<<JStr(<<"tip">>)>>))
                  @@ ("related_runbooks" :> JArr(<<JStr(<<"oomkilled.md">>)>>)))],
    [text |-> "{\"root_cause\":\"x\",\"severity\":\"HIGH\",\"error_category\":\"OOMKilled\",\"explanation\":\"y\",\"fix_commands\":[{\"command\":7,\"description\":\"d\"}],\"prevention_tips\":[\"tip\"],\"related_runbooks\":[\"oomkilled.md\"]}",
     ok |-> TRUE, value |-> JObj(("root_cause" :> JStr(<<"x">>))
                  @@ ("severity" :> JStr(<<"HIGH">>))
                  @@ ("error_category" :> JStr(<<"OOMKilled">>))
                  @@ ("explanation" :> JStr(<<"y">>))
                  @@ ("fix_commands" :> JArr(<<JObj(("command" :> JNum("7")) @@ ("description" :> JStr(<<"d">>)))>>))
                  @@ ("prevention_tips" :> JArr(<<JStr(<<"tip">>)>>))
                  @@ ("related_runbooks" :> JArr(<<JStr(<<"oomkilled.md">>)>>)))],
    [text |-> "{\"root_cause\":\"x\",\"severity\":\"HIGH\",\"error_category\":\"OOMKilled\",\"explanation\":\"y\",\"fix_commands\":\"restart\",\"prevention_tips\":[\"tip\"],\"related_runbooks\":[\"oomkilled.md\"]}",
     ok |-> TRUE, value |-> JObj(("root_cause" :> JStr(<<"x">>))
                  @@ ("severity" :> JStr(<<"HIGH">>))
                  @@ ("error_category" :> JStr(<<"OOMKilled">>))
                  @@ ("explanation" :> JStr(<<"y">>))
                  @@ ("fix_commands" :> JStr(<<"restart">>))
                  @@ ("prevention_tips" :> JArr(<<JStr(<<"tip">>)>>))
                  @@ ("related_runbooks" :> JArr(<<JStr(<<"oomkilled.md">>)>>)))],
    [text |-> "{\"root_cause\":\"x\",\"severity\":\"HIGH\",\"error_category\":\"OOMKilled\",\"explanation\":\"y\",\"fix_commands\":[{\"command\":\"kubectl get pods\",\"description\":\"list pods\",\"risk_level\":\"LOW\"}],\"prevention_tips\":[7],\"related_runbooks\":[\"oomkilled.md\"]}",
     ok |-> TRUE, value |-> JObj(("root_cause" :> JStr(<<"x">>))
                  @@ ("severity" :> JStr(<<"HIGH">>))
                  @@ ("error_category" :> JStr(<<"OOMKilled">>))
                  @@ ("explanation" :> JStr(<<"y">>))
                  @@ ("fix_commands" :> JArr(<<JObj(("command" :> JStr(<<"kubectl get pods">>)) @@ ("description" :> JStr(<<"list pods">>)) @@ ("risk_level" :> JStr(<<"LOW">>)))>>))
                  @@ ("prevention_tips" :> JArr(<<JNum("7")>>))
                  @@ ("related_runbooks" :> JArr(<<JStr(<<"oomkilled.md">>)>>)))],
    [text |-> "{\"root_cause\":\"x\",\"severity\":\"HIGH\",\"error_category\":\"OOMKilled\",\"explanation\":\"y\",\"fix_commands\":[{\"command\":\"kubectl get pods\",\"description\":\"list pods\",\"risk_level\":\"LOW\"}],\"prevention_tips\":\"tip\",\"related_runbooks\":[\"oomkilled.md\"]}",
     ok |-> TRUE, value |-> JObj(("root_cause" :> JStr(<<"x">>))
                  @@ ("severity" :> JStr(<<"HIGH">>))
                  @@ ("error_category" :> JStr(<<"OOMKilled">>))
                  @@ ("explanation" :> JStr(<<"y">>))
                  @@ ("fix_commands" :> JArr(<<JObj(("command" :> JStr(<<"kubectl get pods">>)) @@ ("description" :> JStr(<<"list pods">>)) @@ ("risk_level" :> JStr(<<"LOW">>)))>>))
                  @@ ("prevention_tips" :> JStr(<<"tip">>))
                  @@ ("related_runbooks" :> JArr(<<JStr(<<"oomkilled.md">>)>>)))],
    [text |-> "{\"root_cause\":\"x\",\"severity\":\"HIGH\",\"error_category\":\"OOMKilled\",\"explanation\":\"y\",\"fix_commands\":[{\"command\":\"kubectl get pods\",\"description\":\"list pods\",\"risk_level\":\"LOW\"}],\"prevention_tips\":[\"tip\"],\"related_runbooks\":[{\"title\":\"OOM\",\"filename\":\"oomkilled.md\",\"relevance_score\":0.9}]}",
     ok |-> TRUE, value |-> JObj(("root_cause" :> JStr(<<"x">>))
                  @@ ("severity" :> JStr(<<"HIGH">>))
                  @@ ("error_category" :> JStr(<<"OOMKilled">>))
                  @@ ("explanation" :> JStr(<<"y">>))
                  @@ ("fix_commands" :> JArr(<<JObj(("command" :> JStr(<<"kubectl get pods">>)) @@ ("description" :> JStr(<<"list pods">>)) @@ ("risk_level" :> JStr(<<"LOW">>)))>>))
                  @@ ("prevention_tips" :> JArr(<<JStr(<<"tip">>)>>))
                  @@ ("related_runbooks" :> JArr(<<JObj(("title" :> JStr(<<"OOM">>)) @@ ("filename" :> JStr(<<"oomkilled.md">>)) @@ ("relevance_score" :> JNum("0.9")))>>)))],
    [text |-> "{\"root_cause\":\"x\",\"severity\":\"HIGH\",\"error_category\":\"OOMKilled\",\"explanation\":\"y\",\"fix_commands\":[{\"command\":\"kubectl get pods\",\"description\":\"list pods\",\"risk_level\":\"LOW\"}],\"prevention_tips\":[\"tip\"],\"related_runbooks\":[{\"title\":\"OOM\"}]}",
     ok |-> TRUE, value |-> JObj(("root_cause" :> JStr(<<"x">>))
                  @@ ("severity" :> JStr(<<"HIGH">>))
                  @@ ("error_category" :> JStr(<<"OOMKilled">>))
                  @@ ("explanation" :> JStr(<<"y">>))
                  @@ ("fix_commands" :> JArr(<<JObj(("command" :> JStr(<<"kubectl get pods">>)) @@ ("description" :> JStr(<<"list pods">>)) @@ ("risk_level" :> JStr(<<"LOW">>)))>>))
                  @@ ("prevention_tips" :> JArr(<<JStr(<<"tip">>)>>))
                  @@ ("related_runbooks" :> JArr(<<JObj(("title" :> JStr(<<"OOM">>)))>>)))],
    [text |-> "{\"root_cause\":\"x\",\"severity\":\"HIGH\",\"error_category\":\"OOMKilled\",\"explanation\":\"y\",\"fix_commands\":[{\"command\":\"kubectl get pods\",\"description\":\"list pods\",\"risk_level\":\"LOW\"}],\"prevention_tips\":[\"tip\"],\"related_runbooks\":[7]}",
     ok |-> TRUE, value |-> JObj(("root_cause" :> JStr(<<"x">>))
                  @@ ("severity" :> JStr(<<"HIGH">>))
                  @@ ("error_category" :> JStr(<<"OOMKilled">>))
                  @@ ("explanation" :> JStr(<<"y">>))
                  @@ ("fix_commands" :> JArr(<<JObj(("command" :> JStr(<<"kubectl get pods">>)) @@ ("description" :> JStr(<<"list pods">>)) @@ ("risk_level" :> JStr(<<"LOW">>)))>>))
                  @@ ("prevention_tips" :> JArr(<<JStr(<<"tip">>)>>))
                  @@ ("related_runbooks" :> JArr(<<JNum("7")>>)))],
    [text |-> "{}",
     ok |-> TRUE, value |-> JObj(<<>>)],
    [text |-> "{\"severity\":\"BOGUS\"}",
     ok |-> TRUE, value |-> JObj(("severity" :> JStr(<<"BOGUS">>)))],
    [text |-> "{\"severity\":\"BOGUS\",\"error_category\":\"DiskFull\"}",
     ok |-> TRUE, value |-> JObj(("severity" :> JStr(<<"BOGUS">>))
                  @@ ("error_category" :> JStr(<<"DiskFull">>)))],
    [text |-> "[]",
     ok |-> TRUE, value |-> JArr(<<>>)],
    [text |-> "42",
     ok |-> TRUE, value |-> JNum("42")],
    [text |-> "\"text\"",
     ok |-> TRUE, value |-> JStr(<<"text">>)],
    [text |-> "null",
     ok |-> TRUE, value |-> JNull],
    [text |-> "Sorry, I cannot help.",
     ok |-> FALSE, value |-> JNull],
    [text |-> "{\"root_cause\":\"x\",",
     ok |-> FALSE, value |-> JNull]
>>

\* A reply of brackets nested deeper than the interpreter's recursion limit.
DeepNesting == "[[[[[[ ... nested 1200 deep"

PayloadTexts == {PAYLOADS[i].text : i \in DOMAIN PAYLOADS} \cup {DeepNesting}

\* The payload wrapped in code-fence markup: FENCE json ... FENCE
Wrap(p) == <<FENCE, LANG, NL>> \o p \o <<NL, FENCE>>

\* The raw texts the engine may return: each payload bare, padded with line
\* breaks, fenced with and without the language tag, with only the opening
\* or only the closing fence; and the empty reply.
Replies ==
    {<<>>}
        \cup {<<p>> : p \in PayloadTexts}
        \cup {<<NL, p, NL>> : p \in PayloadTexts}
        \cup {Wrap(<<p>>) : p \in PayloadTexts}
        \cup {<<FENCE, NL, p, NL, FENCE>> : p \in PayloadTexts}
        \cup {<<FENCE, LANG, NL, p>> : p \in PayloadTexts}
        \cup {<<p, NL, FENCE>> : p \in PayloadTexts}

\* The messages of the errors the engine invocation may raise.
EngineErrors == {"Connection timeout", "API key not valid"}

(***************************************************************************)
(* rag_chain.py: _parse_llm_response.                                      *)
(***************************************************************************)
\* str.strip(): leading and trailing white space removed.
RECURSIVE LStrip(_)
LStrip(r) == IF r # <<>> /\ Head(r) = NL THEN LStrip(Tail(r)) ELSE r

RECURSIVE RStrip(_)
RStrip(r) ==
    IF r # <<>> /\ r[Len(r)] = NL THEN RStrip(SubSeq(r, 1, Len(r) - 1)) ELSE r

Strip(r) == RStrip(LStrip(r))

\* str.startswith / str.endswith on token sequences
StartsWith(r, prefix) ==
    Len(r) >= Len(prefix) /\ SubSeq(r, 1, Len(prefix)) = prefix

EndsWith(r, suffix) ==
    Len(r) >= Len(suffix) /\ SubSeq(r, Len(r) - Len(suffix) + 1, Len(r)) = suffix

\* A cleaning that knows only the bare fence, not the fence with its json tag.
CleanReplyNoLang(raw) ==
    LET c0 == Strip(raw)
        c2 == IF StartsWith(c0, <<FENCE>>) THEN SubSeq(c0, 2, Len(c0)) ELSE c0
        c3 == IF EndsWith(c2, <<FENCE>>) THEN SubSeq(c2, 1, Len(c2) - 1) ELSE c2
    IN  Strip(c3)

\* "Clean potential markdown wrapping"
CleanReply(raw) ==
    LET c0 == Strip(raw)
        c1 == IF StartsWith(c0, <<FENCE, LANG>>) THEN SubSeq(c0, 3, Len(c0)) ELSE c0
        c2 == IF StartsWith(c1, <<FENCE>>) THEN SubSeq(c1, 2, Len(c1)) ELSE c1
        c3 == IF EndsWith(c2, <<FENCE>>) THEN SubSeq(c2, 1, Len(c2) - 1) ELSE c2
    IN  Strip(c3)

\* json.loads(cleaned): the value of a single well-formed payload; brackets
\* nested beyond the recursion limit raise RecursionError; anything else (no
\* payload, fence or tag residue, a malformed payload) is a JSONDecodeError.
JsonLoads(cleaned) ==
    IF cleaned = <<DeepNesting>>
    THEN [ok |-> FALSE, value |-> JNull, err |-> "RecursionError"]
    ELSE IF Len(cleaned) = 1 /\ \E i \in DOMAIN PAYLOADS :
                                    PAYLOADS[i].text = cleaned[1] /\ PAYLOADS[i].ok
    THEN LET i == CHOOSE k \in DOMAIN PAYLOADS : PAYLOADS[k].text = cleaned[1]
         IN  [ok |-> TRUE, value |-> PAYLOADS[i].value, err |-> ""]
    ELSE [ok |-> FALSE, value |-> JNull, err |-> "JSONDecodeError"]

\* The message of the RecursionError.
TooDeep == "maximum recursion depth exceeded while decoding a JSON array from a unicode string"

\* The message of the AttributeError parsed.setdefault raises on a non-dict
\* (written without its quotation marks).
NoSetdefault(type) ==
    CASE type = "array" -> "list object has no attribute setdefault"
      [] type = "string" -> "str object has no attribute setdefault"
      [] type = "number" -> "int object has no attribute setdefault"
      [] OTHER -> "NoneType object has no attribute setdefault"

\* "Ensure required fields exist"
Backfill(parsed, raw, runbooks) ==
    LET d1 == Setdefault(parsed, "root_cause", Lit("Unable to determine root cause"))
        d2 == Setdefault(d1, "severity", Lit("MEDIUM"))
        d3 == Setdefault(d2, "error_category", Lit("Unknown"))
        d4 == Setdefault(d3, "explanation", JStr(raw))
        d5 == Setdefault(d4, "fix_commands", JArr(<<>>))
        d6 == Setdefault(d5, "prevention_tips", JArr(<<>>))
    IN  Setdefault(d6, "related_runbooks", JArr(StrList(Filenames(runbooks))))

\* A parse-failure record without the matched documents.
ParseFailureRecordBare(raw, runbooks) ==
    ("root_cause" :> Lit("See explanation"))
        @@ ("severity" :> Lit("MEDIUM"))
        @@ ("error_category" :> Lit("Unknown"))
        @@ ("explanation" :> JStr(raw))
        @@ ("fix_commands" :> JArr(<<>>))
        @@ ("prevention_tips" :> JArr(<<>>))

\* The record returned on json.JSONDecodeError.
ParseFailureRecord(raw, runbooks) ==
    ("root_cause" :> Lit("See explanation"))
        @@ ("severity" :> Lit("MEDIUM"))
        @@ ("error_category" :> Lit("Unknown"))
        @@ ("explanation" :> JStr(raw))
        @@ ("fix_commands" :> JArr(<<>>))
        @@ ("prevention_tips" :> JArr(<<>>))
        @@ ("related_runbooks" :> JArr(StrList(Filenames(runbooks))))

\* _parse_llm_response(raw_response, runbooks): the record returned, or the
\* exception that leaves the function (only JSONDecodeError is caught).
ParseLLMResponse(raw, runbooks) ==
    LET loaded == JsonLoads(CleanReply(raw))
    IN  IF loaded.err = "JSONDecodeError"
        THEN [raised |-> FALSE, exc |-> "", path |-> "parse_failure",
              result |-> ParseFailureRecord(raw, runbooks)]
        ELSE IF ~loaded.ok
        THEN [raised |-> TRUE, exc |-> TooDeep, path |-> "raised", result |-> <<>>]
        ELSE IF loaded.value.type # "object"
        THEN [raised |-> TRUE, exc |-> NoSetdefault(loaded.value.type), path |-> "raised",
              result |-> <<>>]
        ELSE [raised |-> FALSE, exc |-> "", path |-> "parsed",
              result |-> Backfill(loaded.value.obj, raw, runbooks)]

(***************************************************************************)
(* rag_chain.py: the mock and the fallback record.                         *)
(***************************************************************************)
\* The excerpts of one classification as one text.
RECURSIVE Flatten(_)
Flatten(ss) == IF ss = <<>> THEN <<>> ELSE Head(ss) \o Flatten(Tail(ss))

\* json.dumps(classifications or []): the fields of every entry, in order.
RECURSIVE Dumps(_)
Dumps(cs) ==
    IF cs = <<>> THEN <<>>
    ELSE <<cs[1].category, cs[1].severity, cs[1].hint>>
             \o Flatten(cs[1].matched_text.items)
             \o <<ToString(cs[1].match_count)>>
             \o Dumps(Tail(cs))

MockFixCommands ==
    <<JObj(("command" :> Lit("kubectl describe pod <pod-name> -n <namespace>"))
           @@ ("description" :> Lit("Get detailed pod information including events and conditions"))
           @@ ("risk_level" :> Lit("LOW"))),
      JObj(("command" :> Lit("kubectl logs <pod-name> -n <namespace> --previous"))
           @@ ("description" :> Lit("Check logs from the previous crashed container instance"))
           @@ ("risk_level" :> Lit("LOW")))>>

\* _generate_mock_response(error_context, classifications, runbooks)
GenerateMockResponse(error_context, cs, runbooks) ==
    LET severity == IF cs # <<>> THEN cs[1].severity ELSE "MEDIUM"
        category == IF cs # <<>> THEN cs[1].category ELSE "Unknown"
    IN  ("root_cause" :> JStr(<<"[MOCK] Detected", category, "error pattern">>))
            @@ ("severity" :> Lit(severity))
            @@ ("error_category" :> Lit(category))
            @@ ("explanation" :>
                   JStr(<<"[MOCK MODE - No GOOGLE_API_KEY set]", "\n", "Detected error patterns:", "[">>
                            \o Dumps(cs)
                            \o <<"]", "\n", "\n", "Original error:", "\n">>
                            \o Truncate(error_context, MockExcerptChars)))
            @@ ("fix_commands" :> JArr(MockFixCommands))
            @@ ("prevention_tips" :>
                   JArr(<<Lit("Set proper resource requests and limits for all containers"),
                          Lit("Configure health probes with appropriate initialDelaySeconds")>>))
            @@ ("related_runbooks" :> JArr(StrList(Filenames(runbooks))))

FallbackRootCause == "LLM analysis failed - see pre-classified errors below"

\* A fallback that answers with the mock record.
GenerateFallbackResponseAsMock(e_msg, cs, runbooks) == GenerateMockResponse(<<>>, cs, runbooks)

\* _generate_fallback_response(error_msg, classifications, runbooks)
GenerateFallbackResponse(e_msg, cs, runbooks) ==
    ("root_cause" :> Lit(FallbackRootCause))
        @@ ("severity" :> Lit(IF cs # <<>> THEN cs[1].severity ELSE "MEDIUM"))
        @@ ("error_category" :> Lit(IF cs # <<>> THEN cs[1].category ELSE "Unknown"))
        @@ ("explanation" :>
               JStr(<<"The AI model could not be reached (", e_msg,
                      "). However, pattern-based analysis detected:", "[">>
                        \o Dumps(cs) \o <<"]">>))
        @@ ("fix_commands" :>
               JArr(<<JObj(("command" :> Lit("kubectl get events -n <namespace> --sort-by=.lastTimestamp"))
                           @@ ("description" :> Lit("Check recent events in the namespace for clues"))
                           @@ ("risk_level" :> Lit("LOW")))>>))
        @@ ("prevention_tips" :> JArr(<<Lit("Ensure GOOGLE_API_KEY is set and valid")>>))
        @@ ("related_runbooks" :> JArr(StrList(Filenames(runbooks))))

(***************************************************************************)
(* main.py: the construction of the DiagnoseResponse (step 4).             *)
(***************************************************************************)
IsStr(v) == v.type = "string"

\* for cmd in an.get("fix_commands", []): FixCommand(command=cmd.get(...), ...)
\* succeeds: the value can be iterated, every element has .get, and the three
\* fields validate as str.
FixCommandsBuild(an) ==
    LET v == Get(an, "fix_commands", JArr(<<>>))
    IN  CASE v.type = "array" ->
                 \A i \in DOMAIN v.items :
                     /\ v.items[i].type = "object"
                     /\ IsStr(Get(v.items[i].obj, "command", JStr(<<>>)))
                     /\ IsStr(Get(v.items[i].obj, "description", JStr(<<>>)))
                     /\ IsStr(Get(v.items[i].obj, "risk_level", Lit("LOW")))
          [] v.type = "string" -> v.s = <<>>
          [] v.type = "object" -> DOMAIN v.obj = {}
          [] OTHER -> FALSE

\* RelatedRunbook(**rb) validates: title and filename are required strings.
RelatedRunbookValid(rb) ==
    /\ rb.type = "object"
    /\ "title" \in DOMAIN rb.obj /\ IsStr(rb.obj["title"])
    /\ "filename" \in DOMAIN rb.obj /\ IsStr(rb.obj["filename"])
    /\ "relevance_score" \in DOMAIN rb.obj => rb.obj["relevance_score"].type = "number"
    /\ "summary" \in DOMAIN rb.obj => IsStr(rb.obj["summary"])

\* for rb in an.get("related_runbooks", []): RelatedRunbook(...) succeeds.
\* A str or a dict iterates over its characters or keys, which are strings.
RelatedRunbooksBuild(an) ==
    LET v == Get(an, "related_runbooks", JArr(<<>>))
    IN  CASE v.type = "array" ->
                 \A i \in DOMAIN v.items : IsStr(v.items[i]) \/ RelatedRunbookValid(v.items[i])
          [] v.type \in {"string", "object"} -> TRUE
          [] OTHER -> FALSE

\* DiagnoseResponse(...) validates root_cause: str, explanation: str,
\* prevention_tips: List[str].
ResponseFieldsValid(an) ==
    /\ IsStr(Get(an, "root_cause", Lit("Unknown")))
    /\ IsStr(Get(an, "explanation", Lit("No analysis available")))
    /\ LET tips == Get(an, "prevention_tips", JArr(<<>>))
       IN  tips.type = "array" /\ \A i \in DOMAIN tips.items : IsStr(tips.items[i])

\* The value is a member of the enum: Severity(value) does not raise ValueError.
EnumMember(v, enum) == v.type = "string" /\ Len(v.s) = 1 /\ v.s[1] \in enum

\* A handler that omits the guard for the empty classification list.
ResponseSeverityUnguarded(an, cs) ==
    LET v == Get(an, "severity", Lit("MEDIUM"))
    IN  IF EnumMember(v, Severity) THEN v.s[1] ELSE GetHighestSeverity(cs)

\* try: severity = Severity(an.get("severity", "MEDIUM"))
\* except ValueError: get_highest_severity(classifications) if classifications else MEDIUM
ResponseSeverity(an, cs) ==
    LET v == Get(an, "severity", Lit("MEDIUM"))
    IN  IF EnumMember(v, Severity) THEN v.s[1]
        ELSE IF cs # <<>> THEN GetHighestSeverity(cs) ELSE "MEDIUM"

\* A handler that copies the record's category into the response.
ResponseCategoryUnguarded(an) ==
    LET v == Get(an, "error_category", Lit("Unknown"))
    IN  IF v.type = "string" /\ Len(v.s) = 1 THEN v.s[1] ELSE "Unknown"

\* try: ErrorCategory(an.get("error_category", "Unknown"))
\* except ValueError: ErrorCategory.UNKNOWN
ResponseCategory(an) ==
    LET v == Get(an, "error_category", Lit("Unknown"))
    IN  IF EnumMember(v, ErrorCategory) THEN v.s[1] ELSE "Unknown"

\* raise HTTPException(status_code=500, ...)
Http500 ==
    [status |-> 500, severity |-> "", error_category |-> "", root_cause |-> JNull,
     explanation |-> JNull, fix_commands |-> JNull, prevention_tips |-> JNull,
     related_runbooks |-> JNull, k8s_context |-> JNull]

\* Step 4 of diagnose: the DiagnoseResponse, or HTTP 500 when any exception
\* is raised on the way.
BuildResponse(an, cs, k8s_snapshot) ==
    IF /\ FixCommandsBuild(an)
       /\ RelatedRunbooksBuild(an)
       /\ ResponseFieldsValid(an)
    THEN [status           |-> 200,
          severity         |-> ResponseSeverity(an, cs),
          error_category   |-> ResponseCategory(an),
          root_cause       |-> Get(an, "root_cause", Lit("Unknown")),
          explanation      |-> Get(an, "explanation", Lit("No analysis available")),
          fix_commands     |-> Get(an, "fix_commands", JArr(<<>>)),
          prevention_tips  |-> Get(an, "prevention_tips", JArr(<<>>)),
          related_runbooks |-> Get(an, "related_runbooks", JArr(<<>>)),
          k8s_context      |-> IF DOMAIN k8s_snapshot = {} THEN JNull
                               ELSE JObj(k8s_snapshot)]
    ELSE Http500

\* The hand-built lists a caller may pass to get_highest_severity (as the unit
\* tests do): entries carrying only a severity and a category.
CallerLists ==
    SeqsUpTo([severity : Severity, category : {"OOMKilled", "Unknown"}], MaxListLen)

(***************************************************************************)
(* The cluster snapshot. The collectors of k8s_collector.py are opaque:    *)
(* each call returns one of the records below, which carry the keys the    *)
(* collector's code writes on its success path and on its ApiException     *)
(* path. A snapshot is a dict (a function from its keys to JSON values); a *)
(* list entry is a JSON object.                                            *)
(***************************************************************************)
\* Optional[str] request fields: None or a name.
None == "None"
PodNames == {None, "my-pod"}
DeploymentNames == {None, "my-deploy"}

\* Python truth of an Optional[str]
Truthy(name) == name # None /\ name # ""

\* The keys of the list entries, in the order the collectors insert them.
ItemKeys == <<"name", "type", "status", "state", "reason", "message">>

\* More events than the prompt keeps, and more log lines than it keeps.
ManyEvents ==
    [i \in 1..(EventLimit + 1) |->
        JObj(("type" :> Lit("Warning")) @@ ("reason" :> Lit("BackOff"))
             @@ ("message" :> Lit("restart " \o ToString(i))))]

RECURSIVE LogText(_, _)
LogText(i, n) ==
    IF i > n THEN <<>>
    ELSE <<"log line " \o ToString(i)>> \o (IF i < n THEN <<NL>> ELSE <<>>)
             \o LogText(i + 1, n)

ManyLogLines == <<NL>> \o LogText(1, LogLines + 1) \o <<NL>>

\* collect_pod_details: the pod was read / read_namespaced_pod raised
\* ApiException (the logs and the events are then fetched all the same).
PodDetails ==
    ("name" :> Lit("my-pod")) @@ ("namespace" :> Lit("default"))
    @@ ("phase" :> Lit("Running"))
    @@ ("containers" :> JArr(<<JObj(("name" :> Lit("app")) @@ ("state" :> Lit("Waiting"))
                                     @@ ("reason" :> Lit("CrashLoopBackOff")))>>))
    @@ ("resource_spec" :> JArr(<<JObj("name" :> Lit("app"))>>))
    @@ ("recent_logs" :> JStr(ManyLogLines))
    @@ ("events" :> JArr(ManyEvents))

PodApiError ==
    ("error" :> Lit("Failed to fetch pod: Not Found"))
    @@ ("recent_logs" :> Lit("[Could not fetch logs]"))
    @@ ("events" :> JArr(<<>>))

\* collect_deployment_details: the deployment was read / ApiException.
DeploymentDetails ==
    ("name" :> Lit("my-deploy")) @@ ("namespace" :> Lit("default"))
    @@ ("strategy" :> Lit("RollingUpdate"))
    @@ ("conditions" :> JArr(<<JObj(("type" :> Lit("Available"))
                                     @@ ("status" :> Lit("False"))
                                     @@ ("reason" :> Lit("MinimumReplicasUnavailable")))>>))

DeploymentApiError == ("error" :> Lit("Failed to fetch deployment: Not Found"))

\* collect_namespace_overview: the pods were listed / ApiException.
NamespaceOverview ==
    ("namespace" :> Lit("default")) @@ ("total_pods" :> Lit("1"))
    @@ ("unhealthy_pods" :> JArr(<<JObj(("name" :> Lit("my-pod")))>>))
    @@ ("warning_events" :> JArr(<<>>))

NamespaceApiError ==
    ("namespace" :> Lit("default"))
    @@ ("error" :> Lit("Failed to list pods: Forbidden"))
    @@ ("warning_events" :> JArr(<<>>))

\* What every collector returns when the cluster configuration did not load.
K8sNotAvailable == ("error" :> Lit("Kubernetes not available"))

\* The possible results of the three collectors.
CollectPodDetails(available) ==
    IF ~available THEN {K8sNotAvailable} ELSE {PodDetails, PodApiError}

CollectDeploymentDetails(available) ==
    IF ~available THEN {K8sNotAvailable} ELSE {DeploymentDetails, DeploymentApiError}

CollectNamespaceOverview(available) ==
    IF ~available THEN {K8sNotAvailable} ELSE {NamespaceOverview, NamespaceApiError}

\* dict.update(other)
Update(d, other) ==
    [k \in DOMAIN d \cup DOMAIN other |-> IF k \in DOMAIN other THEN other[k] ELSE d[k]]

\* Step 2 of diagnose: the snapshots k8s_data may be bound to.
CollectK8sData(available, pod, dep, health) ==
    IF ~available THEN {<<>>}
    ELSE LET pods == IF Truthy(pod) THEN CollectPodDetails(available) ELSE {<<>>}
             deps == IF Truthy(dep) THEN CollectDeploymentDetails(available) ELSE {<<>>}
             nss  == IF health
                     THEN {("namespace_overview" :> JObj(o)) :
                              o \in CollectNamespaceOverview(available)}
                     ELSE {<<>>}
         IN  {Update(Update(p, d), n) : p \in pods, d \in deps, n \in nss}

(***************************************************************************)
(* The prompt analyze_devops_issue builds, as a sequence of tokens.        *)
(***************************************************************************)
\* json.dumps of one list entry: its keys in insertion order.
RECURSIVE DumpsItem(_, _)
DumpsItem(o, i) ==
    IF i > Len(ItemKeys) THEN <<>>
    ELSE (IF ItemKeys[i] \in DOMAIN o.obj
          THEN <<ItemKeys[i], ":">> \o o.obj[ItemKeys[i]].s
          ELSE <<>>) \o DumpsItem(o, i + 1)

\* json.dumps(list, indent=2)
RECURSIVE DumpsItems(_)
DumpsItems(items) ==
    IF items = <<>> THEN <<>>
    ELSE <<"{">> \o DumpsItem(Head(items), 1) \o <<"}">> \o DumpsItems(Tail(items))

DumpsList(v) == <<"[">> \o DumpsItems(v.items) \o <<"]">>

\* The number of line breaks in a text.
NewlinesIn(t) == Cardinality({i \in DOMAIN t : t[i] = NL})

\* The log text in full.
LastLinesAll(t, n) == t

\* "\n".join(t.split("\n")[-n:])
LastLines(t, n) ==
    LET starts == {i \in 1..(Len(t) + 1) :
                      /\ i = 1 \/ t[i - 1] = NL
                      /\ NewlinesIn(SubSeq(t, i, Len(t))) < n}
        first == CHOOSE i \in starts : \A j \in starts : i <= j
    IN  SubSeq(t, first, Len(t))

\* format_classifications_for_prompt
RECURSIVE ClassificationLines(_, _)
ClassificationLines(cs, i) ==
    IF i > Len(cs) THEN <<>>
    ELSE <<NL, ToString(i) \o ".", "[" \o cs[i].severity \o "]", cs[i].category \o ":",
           cs[i].hint>> \o ClassificationLines(cs, i + 1)

FormatClassificationsForPrompt(cs) ==
    IF cs = <<>> THEN <<"No known error patterns detected.">>
    ELSE <<"Pre-analysis detected the following error patterns:">>
             \o ClassificationLines(cs, 1)

\* A classifier section that is written even for an empty list.
ClassificationContextAlways(cs) == <<NL, NL>> \o FormatClassificationsForPrompt(cs)

ClassificationContext(cs) ==
    IF cs = <<>> THEN <<>> ELSE <<NL, NL>> \o FormatClassificationsForPrompt(cs)

\* The runbook section: a heading, then title, filename and summary of each.
RECURSIVE RunbookLines(_)
RunbookLines(matching) ==
    IF matching = <<>> THEN <<>>
    ELSE LET rb == Head(matching)
         IN  <<NL, "---">> \o rb.title \o <<"(" \o rb.filename \o ")", "---", NL>>
                 \o rb.summary \o <<NL>> \o RunbookLines(Tail(matching))

RunbookContext(matching) ==
    IF matching = <<>> THEN <<>>
    ELSE <<NL, NL, "Relevant Internal Runbooks:", NL>> \o RunbookLines(matching)

\* The parts of the cluster section, joined by blank lines.
RECURSIVE JoinParts(_)
JoinParts(parts) ==
    IF parts = <<>> THEN <<>>
    ELSE Head(parts) \o (IF Len(parts) > 1 THEN <<NL, NL>> ELSE <<>>)
             \o JoinParts(Tail(parts))

\* The five keys of a snapshot that are prompt material.
K8sSummaryParts(k8s_snapshot) ==
    (IF "containers" \in DOMAIN k8s_snapshot
     THEN <<<<"Container Statuses:">> \o DumpsList(k8s_snapshot["containers"])>>
     ELSE <<>>)
    \o (IF "events" \in DOMAIN k8s_snapshot
        THEN <<<<"Recent Events:">>
                 \o DumpsList(JArr(Take(k8s_snapshot["events"].items, EventLimit)))>>
        ELSE <<>>)
    \o (IF "conditions" \in DOMAIN k8s_snapshot
        THEN <<<<"Deployment Conditions:">> \o DumpsList(k8s_snapshot["conditions"])>>
        ELSE <<>>)
    \o (IF "resource_spec" \in DOMAIN k8s_snapshot
        THEN <<<<"Resource Spec:">> \o DumpsList(k8s_snapshot["resource_spec"])>>
        ELSE <<>>)
    \o (IF "recent_logs" \in DOMAIN k8s_snapshot /\ IsStr(k8s_snapshot["recent_logs"])
        THEN <<<<"Recent Pod Logs (last 50 lines):", NL>>
                 \o LastLines(Strip(k8s_snapshot["recent_logs"].s), LogLines)>>
        ELSE <<>>)

\* A cluster section that also reports the snapshot's error field.
K8sContextWithError(k8s_snapshot) ==
    LET parts == K8sSummaryParts(k8s_snapshot)
                     \o (IF "error" \in DOMAIN k8s_snapshot
                         THEN <<<<"Error:">> \o k8s_snapshot["error"].s>>
                         ELSE <<>>)
    IN  IF parts = <<>> THEN <<>>
        ELSE <<NL, NL, "Live Kubernetes Cluster Data:", NL>> \o JoinParts(parts)

\* The cluster section: empty for a snapshot that is None or an empty dict,
\* and for one that has none of the five keys.
K8sContext(k8s_snapshot) ==
    IF DOMAIN k8s_snapshot = {} THEN <<>>
    ELSE LET parts == K8sSummaryParts(k8s_snapshot)
         IN  IF parts = <<>> THEN <<>>
             ELSE <<NL, NL, "Live Kubernetes Cluster Data:", NL>> \o JoinParts(parts)

\* full_prompt
FullPrompt(error_context, cs, k8s_snapshot, matching) ==
    <<NL, "--- Developer Error Report ---", NL>> \o error_context \o <<NL>>
        \o ClassificationContext(cs) \o <<NL>>
        \o K8sContext(k8s_snapshot) \o <<NL>>
        \o RunbookContext(matching) \o <<NL, NL>>
        \o <<"Analyze this error comprehensively and respond in the required JSON format.",
             NL>>

(***************************************************************************)
(* The state machine. One request at a time runs through the /diagnose     *)
(* handler (pc); the threads of Threads call load_runbooks concurrently    *)
(* (lpc). Variables a request owns are discarded when it ends; the         *)
(* configuration, the store and the runbook cache live as long as the      *)
(* process.                                                                *)
(***************************************************************************)
Threads == 1..NumThreads

clusterVars == <<pod_name, deployment_name, include_cluster_health, k8s_data>>
requestVars == <<text, classifications, matching_runbooks, engine, reply, error_msg,
                 invocations, analysis, response, clusterVars, prompt>>
highestVars == <<hs_arg, hs_from, highest>>
processVars == <<credential, store, k8s_available, error_patterns>>
loaderVars == <<lpc, lfiles, lidx, lret, lsearch>>
callVars == <<last_call, prev_call>>

vars == <<pc, text, classifications, hs_arg, hs_from, highest, credential, store,
          runbook_cache, matching_runbooks, engine, reply, error_msg, invocations,
          analysis, response, lpc, lfiles, lidx, lret, last_call, prev_call,
          k8s_available, pod_name, deployment_name, include_cluster_health, k8s_data,
          prompt, error_patterns, lsearch>>

\* The values of a request's variables before it starts.
NoRequest ==
    /\ text = <<>>
    /\ classifications = <<>>
    /\ matching_runbooks = <<>>
    /\ engine = "none"
    /\ reply = <<>>
    /\ error_msg = ""
    /\ invocations = 0
    /\ analysis = <<>>
    /\ response = Http500
    /\ pod_name = None
    /\ deployment_name = None
    /\ include_cluster_health = FALSE
    /\ k8s_data = <<>>
    /\ prompt = <<>>

\* A request arrives with error_message t, naming a pod, a deployment, both or
\* neither, and asking for the namespace overview or not.
Submit(t, pod, dep, health) ==
    /\ pc = "idle"
    /\ text' = t
    /\ pod_name' = pod
    /\ deployment_name' = dep
    /\ include_cluster_health' = health
    /\ pc' = "classify"
    /\ UNCHANGED <<k8s_data, prompt>>
    /\ UNCHANGED <<classifications, matching_runbooks, engine, reply, error_msg,
                   invocations, analysis, response>>
    /\ UNCHANGED <<highestVars, processVars, runbook_cache, loaderVars>>
    /\ UNCHANGED callVars

\* A classifier that consumes the registry entry it used first.
ClassifyConsuming ==
    /\ pc = "classify"
    /\ classifications' = ClassifyErrors(text)
    /\ error_patterns' = IF ClassifyErrors(text) = <<>> THEN error_patterns
                         ELSE Tail(error_patterns)
    /\ pc' = "classified"
    /\ UNCHANGED <<text, matching_runbooks, engine, reply, error_msg, invocations,
                   analysis, response>>
    /\ UNCHANGED <<highestVars, credential, store, k8s_available, runbook_cache,
                   loaderVars>>
    /\ UNCHANGED <<clusterVars, prompt>>
    /\ UNCHANGED callVars

\* Step 1: classifications = classify_errors(body.error_message)
Classify ==
    /\ pc = "classify"
    /\ classifications' = ClassifyErrors(text)
    /\ pc' = "classified"
    /\ UNCHANGED <<text, matching_runbooks, engine, reply, error_msg, invocations,
                   analysis, response>>
    /\ UNCHANGED <<highestVars, processVars, runbook_cache, loaderVars>>
    /\ UNCHANGED <<clusterVars, prompt>>
    /\ UNCHANGED callVars

\* get_highest_severity(classifications) on the classifier's own output
HighestOfClassified ==
    /\ pc = "classified"
    /\ hs_arg' = classifications
    /\ hs_from' = "classifier"
    /\ highest' = GetHighestSeverity(classifications)
    /\ pc' = "ranked"
    /\ UNCHANGED <<requestVars, processVars, runbook_cache, loaderVars>>
    /\ UNCHANGED callVars

\* get_highest_severity(cs) on a list built by the caller
HighestOfList(cs) ==
    /\ pc = "idle"
    /\ hs_arg' = cs
    /\ hs_from' = "caller"
    /\ highest' = GetHighestSeverity(cs)
    /\ pc' = "ranked"
    /\ UNCHANGED <<requestVars, processVars, runbook_cache, loaderVars>>
    /\ UNCHANGED callVars

\* The call has returned and its locals are discarded; the next one may start.
Return ==
    /\ pc = "ranked"
    /\ pc' = "idle"
    /\ text' = <<>>
    /\ classifications' = <<>>
    /\ hs_arg' = <<>>
    /\ hs_from' = "caller"
    /\ highest' = "INFO"
    /\ UNCHANGED <<matching_runbooks, engine, reply, error_msg, invocations, analysis,
                   response>>
    /\ UNCHANGED <<processVars, runbook_cache, loaderVars>>
    /\ UNCHANGED <<clusterVars, prompt>>
    /\ UNCHANGED callVars

\* Step 2: with the cluster configuration loaded, the collectors are called
\* for what the request names; k8s_data stays {} otherwise.
CollectK8s ==
    /\ pc = "classified"
    /\ k8s_data' \in CollectK8sData(k8s_available, pod_name, deployment_name,
                                    include_cluster_health)
    /\ pc' = "collected"
    /\ UNCHANGED <<text, classifications, matching_runbooks, engine, reply, error_msg,
                   invocations, analysis, response>>
    /\ UNCHANGED <<pod_name, deployment_name, include_cluster_health, prompt>>
    /\ UNCHANGED <<highestVars, processVars, runbook_cache, loaderVars>>
    /\ UNCHANGED callVars

\* Step 3, analyze_devops_issue up to the engine: the runbooks are searched
\* (which loads the cache on first use); without a credential the mock record
\* is returned at once.
AnalyzeSearch ==
    /\ pc = "collected"
    /\ LET loaded == LoadRunbooks(runbook_cache, store)
           matching == SearchRunbooks(loaded.runbooks, text, DefaultTopK)
       IN  /\ runbook_cache' = loaded.cache
           /\ matching_runbooks' = matching
           /\ prompt' = FullPrompt(text, classifications, k8s_data, matching)
           /\ IF credential
              THEN /\ pc' = "invoke"
                   /\ UNCHANGED analysis
              ELSE /\ pc' = "respond"
                   /\ analysis' = GenerateMockResponse(text, classifications, matching)
    /\ UNCHANGED <<text, classifications, engine, reply, error_msg, invocations, response>>
    /\ UNCHANGED <<highestVars, processVars, loaderVars>>
    /\ UNCHANGED clusterVars
    /\ UNCHANGED callVars

\* An invocation that fails and is tried again.
EngineRaisesRetry(msg) ==
    /\ pc = "invoke"
    /\ invocations' = invocations + 1
    /\ engine' = "raised"
    /\ error_msg' = msg
    /\ pc' = "invoke"
    /\ UNCHANGED <<text, classifications, matching_runbooks, reply, analysis, response>>
    /\ UNCHANGED <<highestVars, processVars, runbook_cache, loaderVars>>
    /\ UNCHANGED <<clusterVars, prompt>>
    /\ UNCHANGED callVars

\* chat.invoke(...) raises: the except branch returns the fallback record.
EngineRaises(msg) ==
    /\ pc = "invoke"
    /\ invocations' = invocations + 1
    /\ engine' = "raised"
    /\ error_msg' = msg
    /\ analysis' = GenerateFallbackResponse(msg, classifications, matching_runbooks)
    /\ pc' = "respond"
    /\ UNCHANGED <<text, classifications, matching_runbooks, reply, response>>
    /\ UNCHANGED <<highestVars, processVars, runbook_cache, loaderVars>>
    /\ UNCHANGED <<clusterVars, prompt>>
    /\ UNCHANGED callVars

\* chat.invoke(...) returns text r, which _parse_llm_response normalizes; an
\* exception leaving the normalizer is caught by the same except branch.
EngineReturns(r) ==
    /\ pc = "invoke"
    /\ invocations' = invocations + 1
    /\ engine' = "returned"
    /\ reply' = r
    /\ LET parsed == ParseLLMResponse(r, matching_runbooks)
       IN  analysis' = IF parsed.raised
                       THEN GenerateFallbackResponse(parsed.exc, classifications,
                                                     matching_runbooks)
                       ELSE parsed.result
    /\ pc' = "respond"
    /\ UNCHANGED <<text, classifications, matching_runbooks, error_msg, response>>
    /\ UNCHANGED <<highestVars, processVars, runbook_cache, loaderVars>>
    /\ UNCHANGED <<clusterVars, prompt>>
    /\ UNCHANGED callVars

\* Step 4: the DiagnoseResponse is built, or HTTP 500 raised.
Respond ==
    /\ pc = "respond"
    /\ response' = BuildResponse(analysis, classifications, k8s_data)
    /\ pc' = "done"
    /\ UNCHANGED <<text, classifications, matching_runbooks, engine, reply, error_msg,
                   invocations, analysis>>
    /\ UNCHANGED <<highestVars, processVars, runbook_cache, loaderVars>>
    /\ UNCHANGED <<clusterVars, prompt>>
    /\ UNCHANGED callVars

\* The response is sent and the request's variables are discarded.
Finish ==
    /\ pc = "done"
    /\ pc' = "idle"
    /\ text' = <<>>
    /\ classifications' = <<>>
    /\ matching_runbooks' = <<>>
    /\ engine' = "none"
    /\ reply' = <<>>
    /\ error_msg' = ""
    /\ invocations' = 0
    /\ analysis' = <<>>
    /\ response' = Http500
    /\ pod_name' = None
    /\ deployment_name' = None
    /\ include_cluster_health' = FALSE
    /\ k8s_data' = <<>>
    /\ prompt' = <<>>
    /\ UNCHANGED <<highestVars, processVars, runbook_cache, loaderVars>>
    /\ UNCHANGED callVars

(***************************************************************************)
(* load_runbooks, statement by statement, as run by concurrent threads.    *)
(***************************************************************************)
\* A thread that runs load_runbooks for a direct caller, not for a search.
NoSearch ==
    [op |-> "load", query |-> <<>>, top_k |-> 0, seen |-> <<>>, found |-> <<>>,
     done |-> FALSE]

\* A thread calls load_runbooks.
LoadCall(t) ==
    /\ lpc[t] = "idle"
    /\ lpc' = [lpc EXCEPT ![t] = "check"]
    /\ lret' = [lret EXCEPT ![t] = "none"]
    /\ lsearch' = [lsearch EXCEPT ![t] = NoSearch]
    /\ UNCHANGED <<lfiles, lidx, runbook_cache>>
    /\ UNCHANGED <<pc, requestVars, highestVars, processVars>>
    /\ UNCHANGED callVars

\* if _runbook_cache: return _runbook_cache
LoadCheck(t) ==
    /\ lpc[t] = "check"
    /\ IF runbook_cache # <<>>
       THEN /\ lpc' = [lpc EXCEPT ![t] = "returned"]
            /\ lret' = [lret EXCEPT ![t] = "cache"]
       ELSE /\ lpc' = [lpc EXCEPT ![t] = "exists"]
            /\ UNCHANGED lret
    /\ UNCHANGED <<lfiles, lidx, runbook_cache>>
    /\ UNCHANGED <<pc, requestVars, highestVars, processVars>>
    /\ UNCHANGED lsearch
    /\ UNCHANGED callVars

\* if not os.path.exists(runbook_path): return []; else the glob is listed.
LoadExists(t) ==
    /\ lpc[t] = "exists"
    /\ IF ~store.exists
       THEN /\ lpc' = [lpc EXCEPT ![t] = "returned"]
            /\ lret' = [lret EXCEPT ![t] = "empty"]
            /\ UNCHANGED <<lfiles, lidx>>
       ELSE /\ lpc' = [lpc EXCEPT ![t] = "loop"]
            /\ lfiles' = [lfiles EXCEPT ![t] = store.files]
            /\ lidx' = [lidx EXCEPT ![t] = 1]
            /\ UNCHANGED lret
    /\ UNCHANGED runbook_cache
    /\ UNCHANGED <<pc, requestVars, highestVars, processVars>>
    /\ UNCHANGED lsearch
    /\ UNCHANGED callVars

\* One iteration of the for loop: the file is read and its entry appended (a
\* file that cannot be read is skipped); after the last file the cache is
\* returned.
LoadFile(t) ==
    /\ lpc[t] = "loop"
    /\ IF lidx[t] > Len(lfiles[t])
       THEN /\ lpc' = [lpc EXCEPT ![t] = "returned"]
            /\ lret' = [lret EXCEPT ![t] = "cache"]
            /\ UNCHANGED <<lidx, runbook_cache>>
       ELSE /\ runbook_cache' =
                   IF lfiles[t][lidx[t]].readable
                   THEN Append(runbook_cache, RunbookEntry(lfiles[t][lidx[t]]))
                   ELSE runbook_cache
            /\ lidx' = [lidx EXCEPT ![t] = lidx[t] + 1]
            /\ UNCHANGED <<lpc, lret>>
    /\ UNCHANGED lfiles
    /\ UNCHANGED <<pc, requestVars, highestVars, processVars>>
    /\ UNCHANGED lsearch
    /\ UNCHANGED callVars

\* The caller has the result; the thread may call again.
LoadReturn(t) ==
    /\ lpc[t] = "returned"
    /\ lsearch[t].op = "load"
    /\ lpc' = [lpc EXCEPT ![t] = "idle"]
    /\ lfiles' = [lfiles EXCEPT ![t] = <<>>]
    /\ lidx' = [lidx EXCEPT ![t] = 0]
    /\ UNCHANGED <<lret, runbook_cache>>
    /\ UNCHANGED <<pc, requestVars, highestVars, processVars>>
    /\ UNCHANGED lsearch
    /\ UNCHANGED callVars

(***************************************************************************)
(* search_runbooks as run by concurrent threads: the call of load_runbooks *)
(* goes through the steps above, and the for loop then walks the list it   *)
(* was handed, which is the cache itself unless the directory is missing.  *)
(***************************************************************************)
\* A thread calls search_runbooks(query, top_k).
SearchCall(t, query, top_k) ==
    /\ lpc[t] = "idle"
    /\ lpc' = [lpc EXCEPT ![t] = "check"]
    /\ lret' = [lret EXCEPT ![t] = "none"]
    /\ lsearch' = [lsearch EXCEPT ![t] =
                       [op |-> "search", query |-> query, top_k |-> top_k,
                        seen |-> <<>>, found |-> <<>>, done |-> FALSE]]
    /\ UNCHANGED <<lfiles, lidx, runbook_cache>>
    /\ UNCHANGED <<pc, requestVars, highestVars, processVars>>
    /\ UNCHANGED callVars

\* runbooks = load_runbooks(); if not runbooks: return []
SearchEnter(t) ==
    /\ lpc[t] = "returned"
    /\ lsearch[t].op = "search"
    /\ IF lret[t] = "empty" \/ runbook_cache = <<>>
       THEN /\ lpc' = [lpc EXCEPT ![t] = "found"]
            /\ lsearch' = [lsearch EXCEPT ![t].found = <<>>, ![t].done = TRUE]
       ELSE /\ lpc' = [lpc EXCEPT ![t] = "score"]
            /\ UNCHANGED lsearch
    /\ UNCHANGED <<lfiles, lidx, lret, runbook_cache>>
    /\ UNCHANGED <<pc, requestVars, highestVars, processVars>>
    /\ UNCHANGED callVars

\* One iteration of for rb in runbooks over the live list: the next entry is
\* scored if the list has one; otherwise the scored entries are sorted and cut.
SearchScore(t) ==
    /\ lpc[t] = "score"
    /\ IF Len(lsearch[t].seen) < Len(runbook_cache)
       THEN /\ lsearch' = [lsearch EXCEPT ![t].seen =
                               Append(@, runbook_cache[Len(lsearch[t].seen) + 1])]
            /\ UNCHANGED lpc
       ELSE /\ lsearch' = [lsearch EXCEPT
                               ![t].found = SearchRunbooks(lsearch[t].seen,
                                                           lsearch[t].query,
                                                           lsearch[t].top_k),
                               ![t].done = TRUE]
            /\ lpc' = [lpc EXCEPT ![t] = "found"]
    /\ UNCHANGED <<lfiles, lidx, lret, runbook_cache>>
    /\ UNCHANGED <<pc, requestVars, highestVars, processVars>>
    /\ UNCHANGED callVars

\* The caller has the matches; the thread may call again.
SearchReturn(t) ==
    /\ lpc[t] = "found"
    /\ lpc' = [lpc EXCEPT ![t] = "idle"]
    /\ lfiles' = [lfiles EXCEPT ![t] = <<>>]
    /\ lidx' = [lidx EXCEPT ![t] = 0]
    /\ UNCHANGED <<lret, lsearch, runbook_cache>>
    /\ UNCHANGED <<pc, requestVars, highestVars, processVars>>
    /\ UNCHANGED callVars

(***************************************************************************)
(* load_runbooks and search_runbooks called directly, one call after       *)
(* another (the tests, the /suggest-runbook handler).                      *)
(***************************************************************************)
\* What the call before the latest one returned.
Earlier == [op |-> last_call.op, obj |-> last_call.obj, list |-> last_call.list]

\* load_runbooks()
LoadRunbooksCall ==
    /\ pc = "idle"
    /\ LET r == LoadRunbooks(runbook_cache, store)
       IN  /\ runbook_cache' = r.cache
           /\ last_call' = [op |-> "load", read |-> r.read, cache_before |-> runbook_cache,
                            obj |-> r.obj, list |-> r.runbooks,
                            query |-> <<>>, top_k |-> 0, found |-> <<>>]
    /\ prev_call' = Earlier
    /\ UNCHANGED <<pc, requestVars, highestVars, processVars, loaderVars>>

\* search_runbooks(query, top_k)
SearchRunbooksCall(query, top_k) ==
    /\ pc = "idle"
    /\ LET r == LoadRunbooks(runbook_cache, store)
       IN  /\ runbook_cache' = r.cache
           /\ last_call' = [op |-> "search", read |-> r.read, cache_before |-> runbook_cache,
                            obj |-> r.obj, list |-> r.runbooks,
                            query |-> query, top_k |-> top_k,
                            found |-> SearchRunbooks(r.runbooks, query, top_k)]
    /\ prev_call' = Earlier
    /\ UNCHANGED <<pc, requestVars, highestVars, processVars, loaderVars>>

(***************************************************************************)
(* Specifications.                                                         *)
(***************************************************************************)
NoLoader ==
    /\ lpc = [t \in Threads |-> "idle"]
    /\ lfiles = [t \in Threads |-> <<>>]
    /\ lidx = [t \in Threads |-> 0]
    /\ lret = [t \in Threads |-> "none"]
    /\ lsearch = [t \in Threads |-> NoSearch]

\* No direct call of load_runbooks or search_runbooks has been made.
NoCall ==
    [op |-> "none", read |-> FALSE, cache_before |-> <<>>, obj |-> "none",
     list |-> <<>>, query |-> <<>>, top_k |-> 0, found |-> <<>>]

NoCalls ==
    /\ last_call = NoCall
    /\ prev_call = [op |-> "none", obj |-> "none", list |-> <<>>]

NoHighest ==
    /\ hs_arg = <<>>
    /\ hs_from = "caller"
    /\ highest = "INFO"

\* The classifier alone: texts of up to MaxTextLen lexemes.
InitClassifier ==
    /\ pc = "idle"
    /\ NoRequest
    /\ NoHighest
    /\ NoLoader
    /\ NoCalls
    /\ credential = FALSE
    /\ k8s_available = FALSE
    /\ error_patterns = ERROR_PATTERNS
    /\ store = [exists |-> FALSE, files |-> <<>>]
    /\ runbook_cache = <<>>

NextClassifier ==
    \/ \E t \in Texts : Submit(t, None, None, FALSE)
    \/ Classify
    \/ HighestOfClassified
    \/ \E cs \in CallerLists : HighestOfList(cs)
    \/ Return

SpecClassifier == InitClassifier /\ [][NextClassifier]_vars

\* The /diagnose handler, one request after another, in a process started
\* with or without a credential and with any document store.
DiagLexicon == {"OOMKilled", "forbidden", "hello", "\n", LongLine}

DiagTexts == SeqsUpTo(DiagLexicon, MaxDiagTextLen)

InitDiagnose ==
    /\ pc = "idle"
    /\ NoRequest
    /\ NoHighest
    /\ NoLoader
    /\ NoCalls
    /\ credential \in BOOLEAN
    /\ k8s_available = FALSE
    /\ error_patterns = ERROR_PATTERNS
    /\ store \in Stores
    /\ runbook_cache = <<>>

NextDiagnose ==
    \/ \E t \in DiagTexts : Submit(t, None, None, FALSE)
    \/ Classify
    \/ CollectK8s
    \/ AnalyzeSearch
    \/ \E msg \in EngineErrors : EngineRaises(msg)
    \/ \E r \in Replies : EngineReturns(r)
    \/ Respond
    \/ Finish

SpecDiagnose == InitDiagnose /\ [][NextDiagnose]_vars

\* Threads calling load_runbooks concurrently, over any document store.
InitCache ==
    /\ pc = "idle"
    /\ NoRequest
    /\ NoHighest
    /\ NoLoader
    /\ NoCalls
    /\ credential = FALSE
    /\ k8s_available = FALSE
    /\ error_patterns = ERROR_PATTERNS
    /\ store \in Stores
    /\ runbook_cache = <<>>

NextCache ==
    \E t \in Threads :
        \/ LoadCall(t)
        \/ LoadCheck(t)
        \/ LoadExists(t)
        \/ LoadFile(t)
        \/ LoadReturn(t)

SpecCache == InitCache /\ [][NextCache]_vars

\* Direct calls of load_runbooks and search_runbooks, one after another, over
\* any document store.
QueryLexicon == {"OOMKilled", "oom", "forbidden", "\n"}

Queries == SeqsUpTo(QueryLexicon, MaxQueryLen)

InitSearch ==
    /\ pc = "idle"
    /\ NoRequest
    /\ NoHighest
    /\ NoLoader
    /\ NoCalls
    /\ credential = FALSE
    /\ k8s_available = FALSE
    /\ error_patterns = ERROR_PATTERNS
    /\ store \in Stores
    /\ runbook_cache = <<>>

NextSearch ==
    \/ LoadRunbooksCall
    \/ \E q \in Queries, k \in 1..MaxTopK : SearchRunbooksCall(q, k)

SpecSearch == InitSearch /\ [][NextSearch]_vars

\* The /diagnose handler in a process started with or without the cluster
\* configuration, serving requests that name a pod, a deployment, both or
\* neither.
ClusterTexts == {<<"OOMKilled">>, <<"hello">>}

ClusterReplies == {r \in Replies : Len(r) = 1}

InitCluster ==
    /\ pc = "idle"
    /\ NoRequest
    /\ NoHighest
    /\ NoLoader
    /\ NoCalls
    /\ credential \in BOOLEAN
    /\ k8s_available \in BOOLEAN
    /\ error_patterns = ERROR_PATTERNS
    /\ store \in Stores
    /\ runbook_cache = <<>>

NextCluster ==
    \/ \E t \in ClusterTexts, pod \in PodNames, dep \in DeploymentNames,
          health \in BOOLEAN : Submit(t, pod, dep, health)
    \/ Classify
    \/ CollectK8s
    \/ AnalyzeSearch
    \/ \E msg \in EngineErrors : EngineRaises(msg)
    \/ \E r \in ClusterReplies : EngineReturns(r)
    \/ Respond
    \/ Finish

SpecCluster == InitCluster /\ [][NextCluster]_vars

\* classify_errors, search_runbooks, load_runbooks and /diagnose called one
\* after another, in any order, in one process.
SharedQueries == {<<"oom">>, <<"forbidden", "OOMKilled">>, <<"\n">>}

InitShared ==
    /\ pc = "idle"
    /\ NoRequest
    /\ NoHighest
    /\ NoLoader
    /\ NoCalls
    /\ credential \in BOOLEAN
    /\ k8s_available \in BOOLEAN
    /\ error_patterns = ERROR_PATTERNS
    /\ store \in Stores
    /\ runbook_cache = <<>>

NextShared ==
    \/ \E t \in ClusterTexts : Submit(t, None, None, FALSE)
    \/ Classify
    \/ HighestOfClassified
    \/ Return
    \/ CollectK8s
    \/ AnalyzeSearch
    \/ \E msg \in EngineErrors : EngineRaises(msg)
    \/ \E r \in ClusterReplies : EngineReturns(r)
    \/ Respond
    \/ Finish
    \/ LoadRunbooksCall
    \/ \E q \in SharedQueries, k \in {1, DefaultTopK} : SearchRunbooksCall(q, k)

SpecShared == InitShared /\ [][NextShared]_vars

\* Threads calling search_runbooks and load_runbooks concurrently over any
\* document store, while texts are classified.
ConcurrentQueries == {<<"oomkilled", "forbidden">>}

InitConcurrent ==
    /\ pc = "idle"
    /\ NoRequest
    /\ NoHighest
    /\ NoLoader
    /\ NoCalls
    /\ credential = FALSE
    /\ k8s_available = FALSE
    /\ error_patterns = ERROR_PATTERNS
    /\ store \in Stores
    /\ runbook_cache = <<>>

NextConcurrent ==
    \/ \E t \in ClusterTexts : Submit(t, None, None, FALSE)
    \/ Classify
    \/ HighestOfClassified
    \/ Return
    \/ \E t \in Threads :
           \/ LoadCall(t)
           \/ \E q \in ConcurrentQueries : SearchCall(t, q, DefaultTopK)
           \/ LoadCheck(t)
           \/ LoadExists(t)
           \/ LoadFile(t)
           \/ LoadReturn(t)
           \/ SearchEnter(t)
           \/ SearchScore(t)
           \/ SearchReturn(t)

SpecConcurrent == InitConcurrent /\ [][NextConcurrent]_vars

(***************************************************************************)
(* Claims about the classifier (checked under SpecClassifier).             *)
(***************************************************************************)
\* The text has been classified and classifications is classify_errors(text).
Classified == pc \in {"classified", "ranked"} /\ (pc = "ranked" => hs_from = "classifier")

\* The registry signatures of category c that match text t.
MatchingSignatures(t, c) ==
    {i \in DOMAIN ERROR_PATTERNS :
        ERROR_PATTERNS[i].category = c /\ Findall(ERROR_PATTERNS[i].pattern, t) # <<>>}

MatchedCategories(t) == {c \in ErrorCategory : MatchingSignatures(t, c) # {}}

\* C1: classify_errors never returns two entries with the same category, for
\* every text, although PermissionDenied has two signatures in the registry.
C1_NoDuplicateCategory ==
    \A i, j \in DOMAIN classifications :
        i # j => classifications[i].category # classifications[j].category

\* A text matching both PermissionDenied signatures has been classified.
C1_Witness ==
    /\ Classified
    /\ Cardinality(MatchingSignatures(text, "PermissionDenied")) = 2
    /\ \E i \in DOMAIN classifications : classifications[i].category = "PermissionDenied"

\* C2: the list returned by classify_errors is ordered by severity rank
\* (CRITICAL=0 .. INFO=4): rank(i) <= rank(i+1) for every adjacent pair, so a
\* text matching a CRITICAL and a MEDIUM signature has the CRITICAL entry first.
C2_SortedBySeverity ==
    /\ \A i \in 1..(Len(classifications) - 1) :
          SeverityOrder(classifications[i].severity)
              <= SeverityOrder(classifications[i + 1].severity)
    /\ (/\ Classified
        /\ \E i \in DOMAIN ERROR_PATTERNS :
              /\ ERROR_PATTERNS[i].severity = "CRITICAL"
              /\ Findall(ERROR_PATTERNS[i].pattern, text) # <<>>)
        => classifications[1].severity = "CRITICAL"

\* A text whose first match in registry order is not its most severe one: a
\* MEDIUM signature (readiness probe) early in the registry, a HIGH one later,
\* and a CRITICAL one that appears after them in the text.
C2_Witness ==
    /\ Classified
    /\ Len(text) >= 2
    /\ text[1] = "readinessProbe"
    /\ text[Len(text)] = "OOMKilled"
    /\ \E i \in DOMAIN text : text[i] = "forbidden"
    /\ Len(classifications) >= 3
    /\ classifications[1].severity = "CRITICAL"
    /\ classifications[Len(classifications)].severity = "MEDIUM"

\* C3: classify_errors(text) has an entry for category c iff some registry
\* signature of category c matches text; the empty text and a text matching
\* nothing give the empty list; k matched categories give exactly k entries.
C3_EntryIffSignatureMatches ==
    Classified =>
        /\ \A c \in ErrorCategory :
              (\E i \in DOMAIN classifications : classifications[i].category = c)
                  <=> MatchingSignatures(text, c) # {}
        /\ Len(classifications) = Cardinality(MatchedCategories(text))
        /\ (text = <<>> => classifications = <<>>)

\* A text matching signatures of three distinct categories has been classified
\* into three entries.
C3_Witness ==
    /\ Classified
    /\ Cardinality(MatchedCategories(text)) = 3
    /\ Len(classifications) = 3

\* A classified text that matches no signature although it is not empty.
C3_WitnessNoMatch ==
    /\ Classified
    /\ text # <<>>
    /\ MatchedCategories(text) = {}
    /\ classifications = <<>>

\* hs_arg is sorted by severity rank.
SortedArg ==
    \A i \in 1..(Len(hs_arg) - 1) :
        SeverityOrder(hs_arg[i].severity) <= SeverityOrder(hs_arg[i + 1].severity)

\* C4: get_highest_severity returns INFO for the empty list and the severity of
\* element 0 for a non-empty list sorted by severity rank; on the output of
\* classify_errors it is at least as severe as every entry of that output.
C4_HighestSeverity ==
    pc = "ranked" =>
        /\ hs_arg = <<>> => highest = "INFO"
        /\ (hs_arg # <<>> /\ SortedArg) => highest = hs_arg[1].severity
        /\ hs_from = "classifier" =>
              \A i \in DOMAIN hs_arg :
                  SeverityOrder(highest) <= SeverityOrder(hs_arg[i].severity)

\* get_highest_severity has been applied to a classifier output with entries of
\* different severities.
C4_Witness ==
    /\ pc = "ranked"
    /\ hs_from = "classifier"
    /\ Len(hs_arg) >= 2
    /\ hs_arg[1].severity # hs_arg[Len(hs_arg)].severity
    /\ highest = hs_arg[1].severity

\* The entry of the returned list for category c.
EntryOf(c) ==
    classifications[CHOOSE i \in DOMAIN classifications : classifications[i].category = c]

\* The earliest registry signature of category c that matches text t.
FirstSignature(t, c) ==
    CHOOSE i \in MatchingSignatures(t, c) : \A j \in MatchingSignatures(t, c) : i <= j

\* C26: first signature wins. The entry returned for a category has the
\* severity, hint, excerpts and match_count of the earliest signature of that
\* category, in registry order, that matches the text: the matches of a later
\* signature of the category are neither used nor added while an earlier one
\* matches.
C26_FirstSignatureWins ==
    Classified =>
        \A c \in MatchedCategories(text) :
            LET entry == ERROR_PATTERNS[FirstSignature(text, c)]
                matches == Findall(entry.pattern, text)
            IN  /\ EntryOf(c).severity = entry.severity
                /\ EntryOf(c).hint = entry.hint
                /\ EntryOf(c).match_count = Len(matches)
                /\ EntryOf(c).matched_text.items = Take(matches, 3)

\* A text matching both PermissionDenied signatures was classified by the
\* first, HIGH one.
C26_Witness ==
    /\ Classified
    /\ Cardinality(MatchingSignatures(text, "PermissionDenied")) = 2
    /\ EntryOf("PermissionDenied").severity = "HIGH"
    /\ EntryOf("PermissionDenied").match_count = 1
    /\ EntryOf("PermissionDenied").matched_text.items = << <<"forbidden">> >>

\* A text matching only the later PermissionDenied signature was classified
\* by that one.
C26_WitnessLater ==
    /\ Classified
    /\ Cardinality(MatchingSignatures(text, "PermissionDenied")) = 1
    /\ EntryOf("PermissionDenied").severity = "MEDIUM"

\* C27: every entry records match_count equal to the number of matches of its
\* signature in the text, which is at least 1, and carries at most 3 matched
\* excerpts, pairwise distinct, fewer than 3 only when the text has fewer
\* distinct matches.
C27_MatchCountAndExcerpts ==
    Classified =>
        \A c \in MatchedCategories(text) :
            LET matches == Findall(ERROR_PATTERNS[FirstSignature(text, c)].pattern, text)
                excerpts == EntryOf(c).matched_text.items
            IN  /\ EntryOf(c).match_count = Len(matches)
                /\ EntryOf(c).match_count >= 1
                /\ Len(excerpts) <= 3
                /\ \A i, j \in DOMAIN excerpts : i # j => excerpts[i] # excerpts[j]
                /\ Range(excerpts) \subseteq Range(matches)
                /\ Len(excerpts) < 3 => Len(excerpts) = Cardinality(Range(matches))

\* C28: among entries of equal severity the registry order is kept: of two
\* returned entries with the same severity, the one whose winning signature
\* comes earlier in the registry comes first.
C28_TiesKeepRegistryOrder ==
    Classified =>
        \A i, j \in DOMAIN classifications :
            (i < j /\ classifications[i].severity = classifications[j].severity)
                => FirstSignature(text, classifications[i].category)
                       < FirstSignature(text, classifications[j].category)

\* Two MEDIUM entries were returned after a HIGH one whose signature lies
\* between theirs in the registry.
C28_Witness ==
    /\ Classified
    /\ Len(classifications) = 3
    /\ classifications[1].category = "PermissionDenied"
    /\ classifications[2].category = "ReadinessProbeFailure"
    /\ classifications[3].category = "ResourceQuotaExceeded"
    /\ classifications[2].severity = classifications[3].severity

(***************************************************************************)
(* Claims about load_runbooks and search_runbooks called in sequence.      *)
(***************************************************************************)
\* The store holds nothing load_runbooks can cache.
NothingToLoad ==
    ~store.exists \/ \A i \in DOMAIN store.files : ~store.files[i].readable

\* A call has been made after an earlier call had completed its load.
LaterCall == prev_call.op # "none"

\* C11 as stated: the store is read at most once; after the first load has
\* completed, whatever it found, no later call reads the store again or
\* changes the cached set.
C11_StoreReadOnce ==
    LaterCall =>
        /\ ~last_call.read
        /\ runbook_cache = last_call.cache_before

\* C11: after a first load that cached at least one document no later call
\* reads the store again; after a first load that found nothing (directory
\* missing or empty, no readable file) every later call reads the store
\* again; in both cases a later call leaves the cached set as it was.
C11_StoreReadOnceIfFound ==
    LaterCall =>
        /\ last_call.read <=> NothingToLoad
        /\ last_call.cache_before = AppendFiles(<<>>, store.files, 1)
        /\ runbook_cache = last_call.cache_before

C11_Witness ==
    /\ LaterCall
    /\ last_call.op = "search"
    /\ ~last_call.read
    /\ Len(runbook_cache) >= 2

C11_WitnessReadAgain ==
    /\ LaterCall
    /\ last_call.read
    /\ store.exists
    /\ runbook_cache = <<>>

\* The two calls returned one and the same list object: a fresh list is a new
\* object at every call.
SameObject == prev_call.obj = "cache" /\ last_call.obj = "cache"

TwoLoads == prev_call.op = "load" /\ last_call.op = "load"

\* C12 as stated: two successive calls of load_runbooks return the identical
\* object with identical contents, and the second call adds, removes or
\* duplicates no document.
C12_LoadIdempotent ==
    TwoLoads =>
        /\ SameObject
        /\ last_call.list = prev_call.list
        /\ runbook_cache = last_call.cache_before

\* C12: two successive calls of load_runbooks return lists of identical
\* contents and the second call leaves the cache as it was; the lists are the
\* identical object exactly when the runbook directory exists (a missing
\* directory yields a new empty list at every call).
C12_LoadIdempotentIfDirectory ==
    TwoLoads =>
        /\ SameObject <=> store.exists
        /\ last_call.list = prev_call.list
        /\ last_call.list = runbook_cache
        /\ runbook_cache = last_call.cache_before

C12_Witness ==
    /\ TwoLoads
    /\ SameObject
    /\ Len(last_call.list) >= 2
    /\ ~last_call.read

\* The query words of the latest search, and those of them found in document d.
SearchWords == QueryWords(last_call.query)

WordsFound(d) == {w \in SearchWords : WordIn(w, d.content)}

\* The documents of the searched list that hold at least one query word.
MatchingDocs == {i \in DOMAIN last_call.list : WordsFound(last_call.list[i]) # {}}

\* The document a match was made from.
DocOf(m) == CHOOSE i \in DOMAIN last_call.list : last_call.list[i].filename = m.filename

\* a <= b on the scores of two documents, as fractions over SearchWords.
HitsAtMost(i, j) ==
    Cardinality(WordsFound(last_call.list[i])) <= Cardinality(WordsFound(last_call.list[j]))

\* C13: for every query and every positive top_k, search_runbooks returns
\* at most top_k matches, in order of non-increasing relevance_score, and
\* they are the top_k highest-scoring documents of the loaded corpus.
C13_TopKByScore ==
    last_call.op = "search" =>
        LET found == last_call.found
            k == last_call.top_k
            returned == {DocOf(found[n]) : n \in DOMAIN found}
        IN  /\ Len(found) <= k
            /\ \A n \in 1..(Len(found) - 1) :
                   ~ScoreLess(found[n].relevance_score, found[n + 1].relevance_score)
            /\ returned \subseteq MatchingDocs
            /\ Cardinality(returned) = Len(found)
            /\ Len(found) = (IF Cardinality(MatchingDocs) < k
                             THEN Cardinality(MatchingDocs) ELSE k)
            /\ \A i \in returned, j \in MatchingDocs \ returned : HitsAtMost(j, i)

C13_Witness ==
    /\ last_call.op = "search"
    /\ last_call.top_k = 1
    /\ Cardinality(MatchingDocs) = 2
    /\ Len(last_call.found) = 1
    /\ DocOf(last_call.found[1]) = 2
    /\ ~HitsAtMost(2, 1)

\* C14: every match has relevance_score = (distinct query words occurring
\* in the document text) / (distinct query words), a value in (0, 1]; a
\* document holding none of the query words is not returned, and an empty
\* query returns no match. Words are compared in lower case and occur as
\* substrings.
C14_ScoreIsWordFraction ==
    last_call.op = "search" =>
        LET found == last_call.found
        IN  /\ \A n \in DOMAIN found :
                   LET sc == found[n].relevance_score
                       hits == Cardinality(WordsFound(last_call.list[DocOf(found[n])]))
                   IN  /\ sc.den > 0
                       /\ sc.num * Cardinality(SearchWords) = hits * sc.den
                       /\ 0 < sc.num
                       /\ sc.num <= sc.den
                       /\ hits > 0
            /\ SearchWords = {} => found = <<>>

C14_Witness ==
    /\ last_call.op = "search"
    /\ last_call.query = <<"oom", "forbidden">>
    /\ Len(last_call.found) = 2
    /\ last_call.found[1].relevance_score = [num |-> 2, den |-> 2]
    /\ last_call.found[2].relevance_score = [num |-> 1, den |-> 2]

C14_WitnessEmptyQuery ==
    /\ last_call.op = "search"
    /\ last_call.query = <<"\n">>
    /\ last_call.list # <<>>
    /\ last_call.found = <<>>


(***************************************************************************)
(* Claims about analyze_devops_issue and the /diagnose handler.            *)
(***************************************************************************)
\* analyze_devops_issue has returned its record.
Analyzed == pc \in {"respond", "done"}

\* What _parse_llm_response makes of the reply the engine returned.
ReplyParsed == ParseLLMResponse(reply, matching_runbooks)

IsMock == analysis = GenerateMockResponse(text, classifications, matching_runbooks)

IsFallback ==
    /\ "root_cause" \in DOMAIN analysis
    /\ analysis["root_cause"] = Lit(FallbackRootCause)

IsNormalized ==
    /\ engine = "returned"
    /\ ~ReplyParsed.raised
    /\ analysis = ReplyParsed.result

\* C5: every call of analyze_devops_issue ends in exactly one of three
\* outcomes fixed by its trigger: the mock record exactly when no credential
\* is configured, the fallback record exactly when a credential is configured
\* and the engine invocation itself fails, and a normalized-reply record,
\* never the fallback record, whenever the invocation returned text.
C5_OutcomeFixedByTrigger ==
    Analyzed =>
        /\ IsMock <=> ~credential
        /\ IsFallback <=> (credential /\ engine = "raised")
        /\ engine = "returned" => (IsNormalized /\ ~IsFallback)

\* C6: per request the engine is invoked exactly once with a credential and
\* never without one; no failed invocation and no unparseable reply is
\* followed by a second invocation.
C6_InvokedOncePerRequest ==
    /\ invocations <= 1
    /\ pc = "invoke" => invocations = 0
    /\ Analyzed => invocations = (IF credential THEN 1 ELSE 0)

C6_Witness ==
    /\ pc = "done"
    /\ credential
    /\ invocations = 1
    /\ engine = "returned"
    /\ ReplyParsed.path = "parse_failure"

\* C7: no reply of the engine makes the request fail: whatever text the
\* invocation returned, the handler answers with a DiagnoseResponse and not
\* with HTTP 500.
C7_NoReplyFailsRequest ==
    (pc = "done" /\ engine = "returned") => response.status = 200

InvalidSeverity == ~EnumMember(Get(analysis, "severity", Lit("MEDIUM")), Severity)

InvalidCategory ==
    ~EnumMember(Get(analysis, "error_category", Lit("Unknown")), ErrorCategory)

\* C8 as stated: when the record's severity is not a Severity the response
\* carries get_highest_severity(classifications), for every classification
\* list including the empty one; when the category is not an ErrorCategory
\* the response carries Unknown.
C8_InvalidSeverityUsesHighest ==
    (pc = "done" /\ response.status = 200) =>
        /\ InvalidSeverity => response.severity = GetHighestSeverity(classifications)
        /\ InvalidCategory => response.error_category = "Unknown"

\* C8: when the record's severity is not a Severity the response carries
\* get_highest_severity(classifications) if the classification list is not
\* empty and MEDIUM if it is empty; when the category is not an
\* ErrorCategory the response carries Unknown.
C8_InvalidSeverityUsesHighestOrMedium ==
    (pc = "done" /\ response.status = 200) =>
        /\ InvalidSeverity =>
               response.severity = (IF classifications = <<>> THEN "MEDIUM"
                                    ELSE GetHighestSeverity(classifications))
        /\ InvalidCategory => response.error_category = "Unknown"

C8_Witness ==
    /\ pc = "done"
    /\ response.status = 200
    /\ InvalidSeverity
    /\ InvalidCategory
    /\ classifications = <<>>
    /\ response.severity = "MEDIUM"
    /\ GetHighestSeverity(classifications) = "INFO"
    /\ response.error_category = "Unknown"

\* What _parse_llm_response makes of the same reply wrapped in a code fence.
WrappedParsed == ParseLLMResponse(Wrap(reply), matching_runbooks)

\* The engine returned text and the normalizer has run on it.
Normalized == Analyzed /\ engine = "returned"

\* C9 as stated: for every payload the normalizer returns for the payload
\* wrapped in a json code fence the same record, every field equal, as for
\* the payload unwrapped.
C9_FenceRoundTrip ==
    Normalized =>
        /\ ~ReplyParsed.raised => analysis = ReplyParsed.result
        /\ WrappedParsed = ReplyParsed

\* The text neither begins nor ends with code-fence markup.
FenceFree(r) ==
    LET c == Strip(r)
    IN  ~StartsWith(c, <<FENCE>>) /\ ~EndsWith(c, <<FENCE>>)

\* The two records have the same fields and agree on all of them but k.
SameExcept(a, b, k) ==
    /\ DOMAIN a = DOMAIN b
    /\ \A f \in DOMAIN a \ {k} : a[f] = b[f]

\* The reply is a JSON object that carries its own explanation.
OwnExplanation ==
    /\ ReplyParsed.path = "parsed"
    /\ "explanation" \in DOMAIN JsonLoads(CleanReply(reply)).value.obj

\* C9: for every payload that neither begins nor ends with fence markup, the
\* normalizer takes the same path for the payload wrapped in a json code fence
\* as for the payload unwrapped (both parsed, both the parse-failure record,
\* both raising on a JSON value that is no object) and the two records agree
\* on every field but explanation; they agree on explanation too when the
\* payload carries its own, and otherwise each explanation is the raw text
\* that call was given, fence markup included.
C9_FenceRoundTripButExplanation ==
    (Normalized /\ FenceFree(reply)) =>
        /\ ~ReplyParsed.raised => analysis = ReplyParsed.result
        /\ WrappedParsed.path = ReplyParsed.path
        /\ WrappedParsed.exc = ReplyParsed.exc
        /\ SameExcept(WrappedParsed.result, ReplyParsed.result, "explanation")
        /\ OwnExplanation => WrappedParsed.result = ReplyParsed.result
        /\ (~ReplyParsed.raised /\ ~OwnExplanation) =>
               /\ ReplyParsed.result["explanation"] = JStr(reply)
               /\ WrappedParsed.result["explanation"] = JStr(Wrap(reply))

C9_Witness ==
    /\ Normalized
    /\ FenceFree(reply)
    /\ ReplyParsed.path = "parsed"
    /\ ~OwnExplanation
    /\ \E f \in DOMAIN ReplyParsed.result \ {"explanation"} :
           ReplyParsed.result[f] # Backfill(<<>>, reply, matching_runbooks)[f]
    /\ WrappedParsed.result # ReplyParsed.result

(***************************************************************************)
(* Claims about the records analyze_devops_issue returns.                  *)
(***************************************************************************)
RequiredFields ==
    {"root_cause", "severity", "error_category", "explanation", "fix_commands",
     "prevention_tips", "related_runbooks"}

\* The severity and category of the first classification, or MEDIUM/Unknown.
FirstSeverity == IF classifications = <<>> THEN "MEDIUM" ELSE classifications[1].severity

FirstCategory == IF classifications = <<>> THEN "Unknown" ELSE classifications[1].category

MatchedFilenames == JArr(StrList(Filenames(matching_runbooks)))

\* x is the first characters of t, n of them at most: whole lexemes of t and
\* possibly a cut one; all of t if t has no more than n characters.
IsExcerptOf(x, t, n) ==
    /\ \E k \in 0..Len(t) :
           \/ x = SubSeq(t, 1, k) /\ Chars(t, k) <= n
           \/ /\ k < Len(t)
              /\ \E r \in 1..(CharLen(t[k + 1]) - 1) :
                     /\ x = SubSeq(t, 1, k) \o <<Prefix(t[k + 1], r)>>
                     /\ Chars(t, k) + (IF k > 0 THEN 1 ELSE 0) + r <= n
    /\ Chars(t, Len(t)) <= n => x = t

\* What the explanation holds after its "Original error:" line.
MockExcerpt ==
    LET expl == analysis["explanation"].s
        at == CHOOSE i \in DOMAIN expl : expl[i] = "Original error:"
    IN  SubSeq(expl, at + 2, Len(expl))

\* C15: without a credential the record returned is the mock record:
\* severity and category of the first classification or MEDIUM/Unknown, at
\* least 2 fix commands and 2 prevention tips, related_runbooks exactly the
\* filenames of the matched documents, and an explanation embedding at most
\* the first 500 characters of the input text.
C15_MockRecord ==
    (Analyzed /\ ~credential) =>
        /\ analysis["severity"] = Lit(FirstSeverity)
        /\ analysis["error_category"] = Lit(FirstCategory)
        /\ Len(analysis["fix_commands"].items) >= 2
        /\ Len(analysis["prevention_tips"].items) >= 2
        /\ analysis["related_runbooks"] = MatchedFilenames
        /\ "Original error:" \in Range(analysis["explanation"].s)
        /\ IsExcerptOf(MockExcerpt, text, MockExcerptChars)

C15_Witness ==
    /\ Analyzed
    /\ ~credential
    /\ classifications # <<>>
    /\ matching_runbooks # <<>>
    /\ Chars(text, Len(text)) > MockExcerptChars
    /\ MockExcerpt # text
    /\ MockExcerpt # <<>>

\* C16: when the engine invocation raises, the record returned is the
\* fallback record: a root_cause other than the mock record's, severity and
\* category of the first classification or MEDIUM/Unknown, an explanation
\* containing the failure message, exactly 1 fix command and 1 prevention
\* tip, related_runbooks the matched filenames; and the request is answered,
\* not failed.
C16_FallbackRecord ==
    (Analyzed /\ engine = "raised") =>
        /\ analysis["root_cause"] = Lit(FallbackRootCause)
        /\ analysis["root_cause"] #
               GenerateMockResponse(text, classifications, matching_runbooks)["root_cause"]
        /\ analysis["severity"] = Lit(FirstSeverity)
        /\ analysis["error_category"] = Lit(FirstCategory)
        /\ error_msg \in EngineErrors
        /\ error_msg \in Range(analysis["explanation"].s)
        /\ Len(analysis["fix_commands"].items) = 1
        /\ Len(analysis["prevention_tips"].items) = 1
        /\ analysis["related_runbooks"] = MatchedFilenames
        /\ pc = "done" => response.status = 200

C16_Witness ==
    /\ pc = "done"
    /\ engine = "raised"
    /\ classifications # <<>>
    /\ matching_runbooks # <<>>
    /\ response.status = 200
    /\ response.severity = classifications[1].severity

\* The default the normalizer names for a required field.
NamedDefault(k) ==
    CASE k = "root_cause" -> Lit("Unable to determine root cause")
      [] k = "severity" -> Lit("MEDIUM")
      [] k = "error_category" -> Lit("Unknown")
      [] k = "explanation" -> JStr(reply)
      [] k = "related_runbooks" -> MatchedFilenames
      [] OTHER -> JArr(<<>>)

\* The fields of the object the reply parsed to.
Supplied == JsonLoads(CleanReply(reply)).value.obj

\* C17: when the reply parses to a record, the normalizer keeps every field
\* the reply supplies unchanged and sets each missing required field to its
\* named default.
C17_BackfillDefaults ==
    (Normalized /\ ReplyParsed.path = "parsed") =>
        /\ DOMAIN analysis = DOMAIN Supplied \cup RequiredFields
        /\ \A k \in DOMAIN Supplied : analysis[k] = Supplied[k]
        /\ \A k \in RequiredFields \ DOMAIN Supplied : analysis[k] = NamedDefault(k)

C17_Witness ==
    /\ Normalized
    /\ ReplyParsed.path = "parsed"
    /\ matching_runbooks # <<>>
    /\ DOMAIN Supplied = {"severity", "error_category"}
    /\ analysis["severity"] = Lit("BOGUS")
    /\ analysis["related_runbooks"] = MatchedFilenames

\* json.loads yields no value for the cleaned reply.
Unparseable == ~JsonLoads(CleanReply(reply)).ok

\* C18: when the reply is not parseable structured data the normalizer
\* raises nothing and returns the fixed record: root_cause "See explanation",
\* MEDIUM, Unknown, the full raw reply as explanation, no fix commands, no
\* prevention tips, related_runbooks the matched filenames.
C18_ParseFailureRecord ==
    (Normalized /\ Unparseable) =>
        /\ ~ReplyParsed.raised
        /\ analysis = ("root_cause" :> Lit("See explanation"))
                          @@ ("severity" :> Lit("MEDIUM"))
                          @@ ("error_category" :> Lit("Unknown"))
                          @@ ("explanation" :> JStr(reply))
                          @@ ("fix_commands" :> JArr(<<>>))
                          @@ ("prevention_tips" :> JArr(<<>>))
                          @@ ("related_runbooks" :> MatchedFilenames)

\* C19: on every path the mapping analyze_devops_issue returns contains the
\* seven keys root_cause, severity, error_category, explanation,
\* fix_commands, prevention_tips and related_runbooks.
C19_SevenKeys == Analyzed => RequiredFields \subseteq DOMAIN analysis

C19_Witness ==
    /\ Analyzed
    /\ engine = "returned"
    /\ ReplyParsed.path = "parse_failure"
    /\ RequiredFields = DOMAIN analysis

C19_WitnessParsed ==
    /\ Analyzed
    /\ ReplyParsed.path = "parsed"
    /\ Supplied = <<>>
    /\ RequiredFields = DOMAIN analysis

(***************************************************************************)
(* Claims about the cluster snapshot (checked under SpecCluster).          *)
(***************************************************************************)
\* full_prompt has been built.
PromptBuilt == pc \in {"invoke", "respond", "done"}

\* The snapshot is None or {} / it carries an error field and nothing else.
NoSnapshot == DOMAIN k8s_data = {}

ErrorOnly == DOMAIN k8s_data = {"error"}

\* The prompt and the record of the same request with no snapshot at all.
PromptWithoutSnapshot == FullPrompt(text, classifications, <<>>, matching_runbooks)

DiagnosisWithoutSnapshot ==
    IF ~credential
    THEN GenerateMockResponse(text, classifications, matching_runbooks)
    ELSE IF engine = "raised"
         THEN GenerateFallbackResponse(error_msg, classifications, matching_runbooks)
         ELSE IF ReplyParsed.raised
              THEN GenerateFallbackResponse(ReplyParsed.exc, classifications,
                                            matching_runbooks)
              ELSE ReplyParsed.result

\* The request names a pod or a deployment.
NamesWorkload == Truthy(pod_name) \/ Truthy(deployment_name)

\* C20: cluster data is optional. With a snapshot that is absent, empty or
\* carries only an error field the prompt and the record returned are those
\* of the same request with no snapshot; and a request naming a pod or a
\* deployment while the cluster is unavailable collects nothing and gets the
\* response of the same request without the names, which is a successful one
\* whenever the record is the mock or the fallback record.
C20_ClusterDataOptional ==
    /\ (PromptBuilt /\ (NoSnapshot \/ ErrorOnly)) => prompt = PromptWithoutSnapshot
    /\ (Analyzed /\ (NoSnapshot \/ ErrorOnly)) => analysis = DiagnosisWithoutSnapshot
    /\ (pc = "done" /\ ~k8s_available /\ NamesWorkload) =>
          /\ NoSnapshot
          /\ response = BuildResponse(DiagnosisWithoutSnapshot, classifications, <<>>)
          /\ (~credential \/ engine = "raised") => response.status = 200

\* A request naming a deployment the cluster does not have was answered: the
\* snapshot carried only the error field.
C20_Witness ==
    /\ pc = "done"
    /\ k8s_available
    /\ Truthy(deployment_name)
    /\ ErrorOnly
    /\ prompt = PromptWithoutSnapshot
    /\ response.status = 200

\* A request naming a pod was answered while the cluster was unavailable.
C20_WitnessUnavailable ==
    /\ pc = "done"
    /\ ~k8s_available
    /\ Truthy(pod_name)
    /\ NoSnapshot
    /\ response.status = 200

\* A snapshot with prompt material does change the prompt.
C20_WitnessSnapshotUsed ==
    /\ PromptBuilt
    /\ "containers" \in DOMAIN k8s_data
    /\ prompt # PromptWithoutSnapshot

(***************************************************************************)
(* Claims about a missing runbook directory (checked under SpecDiagnose).  *)
(***************************************************************************)
\* os.path.exists(runbook_path) is false.
MissingDirectory == ~store.exists

\* The reply went down the except json.JSONDecodeError branch.
ParseFailed ==
    /\ engine = "returned"
    /\ JsonLoads(CleanReply(reply)).err = "JSONDecodeError"

\* The record came from the except branch of analyze_devops_issue.
FellBack == engine = "raised" \/ (engine = "returned" /\ ReplyParsed.raised)

\* C21: when the runbook directory is missing, load_runbooks returns an empty
\* list, search_runbooks returns [] for every query and every top_k, and the
\* request is answered: in the mock, parse-failure and fallback outcomes with
\* status 200 and an empty related_runbooks list.
C21_MissingDirectoryNotFatal ==
    MissingDirectory =>
        /\ runbook_cache = <<>>
        /\ LoadRunbooks(runbook_cache, store).runbooks = <<>>
        /\ \A q \in Queries \cup DiagTexts, k \in 1..MaxTopK :
               SearchRunbooks(LoadRunbooks(runbook_cache, store).runbooks, q, k) = <<>>
        /\ PromptBuilt => matching_runbooks = <<>>
        /\ Analyzed => RequiredFields \subseteq DOMAIN analysis
        /\ (pc = "done" /\ (~credential \/ ParseFailed \/ FellBack)) =>
               /\ response.status = 200
               /\ response.related_runbooks = JArr(<<>>)

\* Requests were answered without a runbook directory: one by the fallback
\* record after the engine raised.
C21_Witness ==
    /\ MissingDirectory
    /\ pc = "done"
    /\ engine = "raised"
    /\ response.status = 200
    /\ response.related_runbooks = JArr(<<>>)

C21_WitnessParseFailure ==
    /\ MissingDirectory
    /\ pc = "done"
    /\ ParseFailed
    /\ response.status = 200

C21_WitnessMock ==
    /\ MissingDirectory
    /\ pc = "done"
    /\ ~credential
    /\ text # <<>>
    /\ response.status = 200

(***************************************************************************)
(* Claims about the prompt (checked under SpecCluster).                    *)
(***************************************************************************)
\* The headings the sections of the prompt open with, and the sentence
\* format_classifications_for_prompt has for an empty list.
ReportHeading == "--- Developer Error Report ---"
ClassifierHeading == "Pre-analysis detected the following error patterns:"
NoPatternsSentence == "No known error patterns detected."
ClusterHeading == "Live Kubernetes Cluster Data:"
RunbookHeading == "Relevant Internal Runbooks:"
ClosingSentence ==
    "Analyze this error comprehensively and respond in the required JSON format."

\* The labels of the parts of the cluster section.
ClusterLabels ==
    {"Container Statuses:", "Recent Events:", "Deployment Conditions:", "Resource Spec:",
     "Recent Pod Logs (last 50 lines):"}

\* The keys of a snapshot the prompt reads.
PromptKeys == {"containers", "events", "conditions", "resource_spec", "recent_logs"}

\* The places of a token in the prompt.
Places(token) == {i \in DOMAIN prompt : prompt[i] = token}

\* Every place of token a comes before every place of token b.
Before(a, b) == \A i \in Places(a), j \in Places(b) : i < j

\* The source data of each optional section is there.
HasClassifications == classifications # <<>>
HasUsableSnapshot == DOMAIN k8s_data \cap PromptKeys # {}
HasMatches == matching_runbooks # <<>>

\* C22: the prompt opens with the report heading and the raw error text, and
\* the classifier summary, the cluster summary and the runbook excerpts follow
\* in that order before the closing sentence; each of the three is there
\* exactly when its source data is, and without classifications, usable
\* snapshot fields and matches the prompt is the heading, the text and the
\* closing sentence with the template's line breaks only.
C22_PromptSections ==
    PromptBuilt =>
        /\ SubSeq(prompt, 1, 3 + Len(text)) = <<NL, ReportHeading, NL>> \o text
        /\ Cardinality(Places(ClassifierHeading)) = (IF HasClassifications THEN 1 ELSE 0)
        /\ Cardinality(Places(ClusterHeading)) = (IF HasUsableSnapshot THEN 1 ELSE 0)
        /\ Cardinality(Places(RunbookHeading)) = (IF HasMatches THEN 1 ELSE 0)
        /\ Places(NoPatternsSentence) = {}
        /\ ~HasUsableSnapshot => \A l \in ClusterLabels : Places(l) = {}
        /\ ~HasMatches => \A i \in DOMAIN Corpus :
                              Places("(" \o Corpus[i].filename \o ")") = {}
        /\ \A i \in Places(ClassifierHeading) : i > 3 + Len(text)
        /\ Before(ClassifierHeading, ClusterHeading)
        /\ Before(ClassifierHeading, RunbookHeading)
        /\ Before(ClusterHeading, RunbookHeading)
        /\ \A l \in ClusterLabels :
               Before(ClusterHeading, l) /\ Before(l, RunbookHeading)
        /\ \A h \in {ClassifierHeading, ClusterHeading, RunbookHeading} :
               Before(h, ClosingSentence)
        /\ Places(ClosingSentence) = {Len(prompt) - 1}
        /\ (~HasClassifications /\ ~HasUsableSnapshot /\ ~HasMatches) =>
               prompt = <<NL, ReportHeading, NL>> \o text
                            \o <<NL, NL, NL, NL, NL, ClosingSentence, NL>>

\* A prompt with all three optional sections.
C22_Witness ==
    /\ PromptBuilt
    /\ HasClassifications
    /\ HasUsableSnapshot
    /\ HasMatches
    /\ Places(ClassifierHeading) # {}
    /\ Places(RunbookHeading) # {}

\* A prompt with none of them.
C22_WitnessBare ==
    /\ PromptBuilt
    /\ ~HasClassifications
    /\ ~HasUsableSnapshot
    /\ ~HasMatches
    /\ text # <<>>

\* The token occurs in the prompt.
InPrompt(token) == Places(token) # {}

\* The strings of a list entry, and of a list of entries.
ItemTokens(o) == UNION {Range(o.obj[k].s) : k \in DOMAIN o.obj}

ListTokens(v) == UNION {ItemTokens(v.items[i]) : i \in DOMAIN v.items}

\* The lines of a log text.
LinesOf(t) == SelectSeq(t, LAMBDA w : w # NL)

\* Every string held by a snapshot field, a nested snapshot included.
FieldTokens(v) ==
    CASE v.type = "string" -> Range(v.s)
      [] v.type = "array" -> ListTokens(v)
      [] v.type = "object" ->
            UNION {IF v.obj[k].type = "array" THEN ListTokens(v.obj[k])
                   ELSE Range(v.obj[k].s) : k \in DOMAIN v.obj}
      [] OTHER -> {}

\* C23: of a snapshot the prompt holds the first 10 event records and no
\* later one, the last 50 lines of the recent logs and no earlier one, the
\* container-status, condition and resource-spec lists in full, and nothing
\* that comes from any other field of the snapshot.
C23_ClusterSummaryBounded ==
    PromptBuilt =>
        /\ "events" \in DOMAIN k8s_data =>
               LET ev == k8s_data["events"].items
               IN  \A i \in DOMAIN ev :
                       InPrompt(ev[i].obj["message"].s[1]) <=> i <= EventLimit
        /\ "recent_logs" \in DOMAIN k8s_data =>
               LET lines == LinesOf(k8s_data["recent_logs"].s)
               IN  /\ \A j \in DOMAIN lines :
                          InPrompt(lines[j]) <=> j > Len(lines) - LogLines
                   /\ Cardinality({i \in DOMAIN prompt : prompt[i] \in Range(lines)})
                          <= LogLines
        /\ \A k \in {"containers", "conditions", "resource_spec"} \cap DOMAIN k8s_data :
               \A token \in ListTokens(k8s_data[k]) : InPrompt(token)
        /\ \A k \in DOMAIN k8s_data \ PromptKeys :
               \A token \in FieldTokens(k8s_data[k]) :
                   \/ ~InPrompt(token)
                   \/ \E p \in DOMAIN k8s_data \cap PromptKeys :
                          token \in FieldTokens(k8s_data[p])

\* A prompt built from a snapshot with more than 10 events and more than 50
\* log lines, next to fields that are no prompt material.
C23_Witness ==
    /\ PromptBuilt
    /\ "events" \in DOMAIN k8s_data
    /\ Len(k8s_data["events"].items) > EventLimit
    /\ "recent_logs" \in DOMAIN k8s_data
    /\ Len(LinesOf(k8s_data["recent_logs"].s)) > LogLines
    /\ "namespace_overview" \in DOMAIN k8s_data
    /\ "conditions" \in DOMAIN k8s_data
    /\ InPrompt("restart 10")
    /\ ~InPrompt("restart 11")
    /\ InPrompt("log line 51")
    /\ ~InPrompt("log line 1")

(***************************************************************************)
(* Claims about the state requests share (checked under SpecShared).       *)
(***************************************************************************)
\* The documents a list of cache entries holds.
CachedSet(cache) == Range(cache)

\* The cache goes from empty to what one pass over the store's files loads.
FirstPopulation ==
    /\ runbook_cache = <<>>
    /\ runbook_cache' = AppendFiles(<<>>, store.files, 1)

\* C24: no step of a classify_errors, search_runbooks, load_runbooks or
\* diagnose call changes the pattern registry, and the cache changes only by
\* being populated while empty: once it holds documents no step changes the
\* cached set.
C24_SharedStateFrame ==
    [][/\ error_patterns = ERROR_PATTERNS
       /\ error_patterns' = error_patterns
       /\ runbook_cache' # runbook_cache => FirstPopulation
       /\ runbook_cache # <<>> => CachedSet(runbook_cache') = CachedSet(runbook_cache)]_vars

\* After the cache was populated a text has been classified, a search has run
\* and a request has been answered.
C24_Witness ==
    /\ runbook_cache # <<>>
    /\ last_call.op = "search"
    /\ last_call.read = FALSE
    /\ pc = "done"
    /\ classifications # <<>>
    /\ error_patterns = ERROR_PATTERNS

(***************************************************************************)
(* Claims about concurrent searches (checked under SpecConcurrent).        *)
(***************************************************************************)
\* The thread's search_runbooks call has produced its matches.
SearchDone(t) == lsearch[t].op = "search" /\ lsearch[t].done

\* The documents one uninterrupted load of the store caches.
StoreDocuments == AppendFiles(<<>>, store.files, 1)

\* C25: classify_errors(text) depends on the text alone, and any two
\* search_runbooks calls with the same query and top_k over the same store
\* return the same ordered matches, also when one of them overlaps the first
\* population of the cache.
C25_Deterministic ==
    /\ pc \in {"classified", "ranked"} => classifications = ClassifyErrors(text)
    /\ \A t1, t2 \in Threads :
           (/\ SearchDone(t1)
            /\ SearchDone(t2)
            /\ lsearch[t1].query = lsearch[t2].query
            /\ lsearch[t1].top_k = lsearch[t2].top_k)
               => lsearch[t1].found = lsearch[t2].found

\* C30: every search_runbooks call scores the complete set of documents of
\* the store (none when the directory is missing), never a strict non-empty
\* subset left by a load that is still under way.
C30_NoPartialCache ==
    \A t \in Threads :
        SearchDone(t) => Range(lsearch[t].seen) = Range(StoreDocuments)

(***************************************************************************)
(* Claims about the enums of the response (checked under SpecDiagnose).    *)
(***************************************************************************)
\* C29: for every request and every reply of the engine, a response that is
\* returned carries a severity of the Severity enum and an error_category of
\* the ErrorCategory enum; a free-form value of the record never reaches it.
C29_ClosedEnums ==
    (pc = "done" /\ response.status = 200) =>
        /\ response.severity \in Severity
        /\ response.error_category \in ErrorCategory

\* The engine's record named a severity and a category outside the enums,
\* with classifications at hand, and the request was answered.
C29_Witness ==
    /\ pc = "done"
    /\ engine = "returned"
    /\ response.status = 200
    /\ InvalidSeverity
    /\ InvalidCategory
    /\ classifications # <<>>
    /\ response.severity \in Severity
    /\ response.error_category = "Unknown"

(***************************************************************************)
(* Claims about the runbook cache under concurrent loading.                *)
(***************************************************************************)
\* No call of load_runbooks is under way, and one has returned.
LoadersQuiet ==
    /\ \A t \in Threads : lpc[t] \in {"idle", "returned"}
    /\ \E t \in Threads : lpc[t] = "returned"

\* C10: when load_runbooks is called concurrently while the cache is empty,
\* in every interleaving the cache ends up holding each document of the store
\* exactly once, none duplicated and none missing.
C10_EachDocumentOnce ==
    (LoadersQuiet /\ store.exists) =>
        runbook_cache = AppendFiles(<<>>, store.files, 1)

====
